---- MODULE Spec2Model ----
(***************************************************************************)
(* Model of the duplicate-file cleaner: the grouping engine                *)
(* (find_duplicate_groups), the deleter (delete_files) and the delete      *)
(* operations of the window (DuplicateCleanerUI).                          *)
(*                                                                         *)
(* A path is a record [parent, name].  A file on disk is a record          *)
(* [content, mtime]; content is a sequence of bytes, its size is the       *)
(* length of that sequence.  A FileEntry is [path, size, mtime].           *)
(* Times (mtime, the clock) are counts of ticks, TicksPerSecond ticks to   *)
(* the second: st_mtime is a float with a fractional part.                 *)
(***************************************************************************)
EXTENDS Integers, Sequences, FiniteSets, TLC

(* ----------------------------- bounds ---------------------------------- *)
\* Largest number of files that exist on the modelled disk.
MaxFiles == 3
\* Largest number of files whose read fails with OSError.
MaxUnreadable == 1
\* Largest number of paths whose removal fails (locked, permission).
MaxLocked == 1
\* Longest list of paths handed to delete_files on its own.
MaxDeletePaths == 2
\* Longest file name: kept files are renamed while their names are shorter.
MaxNameLen == 2
\* Largest number of files whose stat fails with OSError during a walk.
MaxUnstatable == 1
\* Largest number of listed entries that are no file when looked at.
MaxBroken == 1
MaxRepeat == 1

(* ------------------------- program constants --------------------------- *)
\* hash_max_bytes = None
NoCap == -1

\* The resolution of the timestamps of the model: ticks in one second.
TicksPerSecond == 2
\* int(mtime), in seconds.
WholeSeconds(mtime) == mtime \div TicksPerSecond

Dirs == {"d1", "d2"}
\* A file name is a sequence of characters.
Names == {<<"a">>, <<"A">>}
Paths == [parent : Dirs, name : Names]
\* Byte contents: two of equal size, one of another size.
Contents == {<<1>>, <<2>>, <<1, 2>>}
MTimes == {1, 2}
\* The clock when a scan runs: no file is modified in the future.
Now == CHOOSE m \in MTimes : \A x \in MTimes : x <= m
FileData == [content : Contents, mtime : MTimes]
\* hash_max_bytes: None, or a cap below / between the modelled sizes.
HashCaps == {NoCap, 0, 1}

\* A fixed enumeration order of the paths (the order a directory walk yields).
PathOrder ==
    << [parent |-> "d1", name |-> <<"a">>], [parent |-> "d1", name |-> <<"A">>],
       [parent |-> "d2", name |-> <<"a">>], [parent |-> "d2", name |-> <<"A">>] >>

(* --------------------------- small helpers ----------------------------- *)
RECURSIVE SeqFilterIdx(_, _, _)
\* The subsequence of s (from index i on) of the elements in set keep.
SeqFilterIdx(s, i, keep) ==
    IF i > Len(s) THEN <<>>
    ELSE (IF s[i] \in keep THEN <<s[i]>> ELSE <<>>) \o SeqFilterIdx(s, i + 1, keep)

Range(s) == {s[i] : i \in 1..Len(s)}

\* str.strip on the modelled alphabet: the blank is " ".
RECURSIVE LStrip(_)
LStrip(s) == IF s /= <<>> /\ Head(s) = " " THEN LStrip(Tail(s)) ELSE s
RECURSIVE RStrip(_)
RStrip(s) == IF s /= <<>> /\ s[Len(s)] = " " THEN RStrip(SubSeq(s, 1, Len(s) - 1)) ELSE s
Strip(s) == RStrip(LStrip(s))

\* str.casefold on the modelled alphabet.
Casefold(name) == [i \in DOMAIN name |-> IF name[i] = "A" THEN "a" ELSE name[i]]

(* ------------------------------ core.py -------------------------------- *)
\* _normalize_name: case-insensitive on Windows only.
NormalizeName(name, env) == IF env.nt THEN Casefold(name) ELSE name

\* Mutant of HexDigest: a digest that depends on the length of the stream only.
HexDigestOfLength(bytes) == Len(bytes)

RECURSIVE HexDigest(_)
\* hashlib.sha256 over the whole byte stream: an injective encoding of the
\* bytes (no two contents of the model share a digest).
HexDigest(bytes) ==
    IF bytes = <<>> THEN 1
    ELSE HexDigest(SubSeq(bytes, 1, Len(bytes) - 1)) * 3 + bytes[Len(bytes)]

\* _sha256(path): the digest, or "OSError" when the file cannot be opened/read.
Sha256Fails(path, env) == path \notin DOMAIN env.files \/ path \in env.unreadable
Sha256(path, env) == HexDigest(env.files[path].content)

\* The entries a scan of the disk hands to the grouper: one per existing file.
MakeEntries(env) ==
    LET present == SeqFilterIdx(PathOrder, 1, DOMAIN env.files)
    IN [i \in 1..Len(present) |->
          [path |-> present[i],
           size |-> Len(env.files[present[i]].content),
           mtime |-> env.files[present[i]].mtime]]

\* dict helpers: an insertion-ordered dict is a sequence of [k, v] records.
HasKey(d, k) == \E i \in 1..Len(d) : d[i].k = k
KeyIndex(d, k) == CHOOSE i \in 1..Len(d) : d[i].k = k
\* Mutant of SetDefaultAppend: the item is appended twice.
SetDefaultAppendTwice(d, k, item) ==
    IF HasKey(d, k)
    THEN [d EXCEPT ![KeyIndex(d, k)].v = Append(Append(@, item), item)]
    ELSE Append(d, [k |-> k, v |-> <<item, item>>])

\* d.setdefault(k, []).append(item)
SetDefaultAppend(d, k, item) ==
    IF HasKey(d, k)
    THEN [d EXCEPT ![KeyIndex(d, k)].v = Append(@, item)]
    ELSE Append(d, [k |-> k, v |-> <<item>>])

RECURSIVE SizeBucketsFrom(_, _, _)
SizeBucketsFrom(entries, i, d) ==
    IF i > Len(entries) THEN d
    ELSE SizeBucketsFrom(entries, i + 1, SetDefaultAppend(d, entries[i].size, entries[i]))

\* size_buckets: by size when hashing, else one bucket holding every entry.
SizeBuckets(entries, use_hash) ==
    IF use_hash THEN SizeBucketsFrom(entries, 1, <<>>)
    ELSE << [k |-> NoCap, v |-> entries] >>

\* do_hash_here = use_hash and len(files) > 1
DoHashHere(use_hash, files) == use_hash /\ Len(files) > 1

\* Mutant of OtherComponents: the size component is never appended.
OtherComponentsWithoutSize(e, a, env) ==
    (IF a.use_name THEN << <<"name", NormalizeName(e.path.name, env)>> >> ELSE <<>>)
    \o (IF a.use_mtime THEN << <<"mtime", e.mtime>> >> ELSE <<>>)

\* The components after the optional hash component.
OtherComponents(e, a, env) ==
    (IF a.use_size THEN << <<"size", e.size>> >> ELSE <<>>)
    \o (IF a.use_name THEN << <<"name", NormalizeName(e.path.name, env)>> >> ELSE <<>>)
    \o (IF a.use_mtime THEN << <<"mtime", e.mtime>> >> ELSE <<>>)

\* Mutant of OverCap: the cap itself already counts as too large.
OverCapInclusive(size, hash_max_bytes) == hash_max_bytes /= NoCap /\ size >= hash_max_bytes

\* hash_max_bytes is not None and size > hash_max_bytes
OverCap(size, hash_max_bytes) == hash_max_bytes /= NoCap /\ size > hash_max_bytes

\* Mutant of ProcessFile: a record over the cap is counted and then dropped.
ProcessFileDroppingOverCap(st, e, do_hash_here, a, env) ==
    LET skip == do_hash_here /\ OverCap(e.size, a.hash_max_bytes)
        read == do_hash_here /\ ~skip
        st1 == [st EXCEPT !.hash_skipped = IF skip THEN @ + 1 ELSE @,
                          !.hashed = IF read THEN Append(@, e.path) ELSE @]
        components ==
            (IF read THEN << <<"hash", Sha256(e.path, env)>> >> ELSE <<>>)
            \o OtherComponents(e, a, env)
    IN IF skip \/ (read /\ Sha256Fails(e.path, env)) THEN st1
       ELSE IF components = <<>> THEN st1
       ELSE [st1 EXCEPT !.groups = SetDefaultAppend(@, components, e)]

\* Mutant of ProcessFile: a record whose digest fails keeps a key made of the
\* other criteria instead of being dropped.
ProcessFileKeepingFailed(st, e, do_hash_here, a, env) ==
    LET skip == do_hash_here /\ OverCap(e.size, a.hash_max_bytes)
        read == do_hash_here /\ ~skip
        st1 == [st EXCEPT !.hash_skipped = IF skip THEN @ + 1 ELSE @,
                          !.hashed = IF read THEN Append(@, e.path) ELSE @]
        components ==
            (IF read /\ ~Sha256Fails(e.path, env)
             THEN << <<"hash", Sha256(e.path, env)>> >> ELSE <<>>)
            \o OtherComponents(e, a, env)
    IN IF components = <<>> THEN st1
       ELSE [st1 EXCEPT !.groups = SetDefaultAppend(@, components, e)]

\* One iteration of the inner loop: st is [groups, hash_skipped, hashed].
ProcessFile(st, e, do_hash_here, a, env) ==
    LET skip == do_hash_here /\ OverCap(e.size, a.hash_max_bytes)
        read == do_hash_here /\ ~skip
        st1 == [st EXCEPT !.hash_skipped = IF skip THEN @ + 1 ELSE @,
                          !.hashed = IF read THEN Append(@, e.path) ELSE @]
        components ==
            (IF read THEN << <<"hash", Sha256(e.path, env)>> >> ELSE <<>>)
            \o OtherComponents(e, a, env)
    IN IF read /\ Sha256Fails(e.path, env) THEN st1
       ELSE IF components = <<>> THEN st1
       ELSE [st1 EXCEPT !.groups = SetDefaultAppend(@, components, e)]

RECURSIVE ProcessFiles(_, _, _, _, _, _)
ProcessFiles(st, files, i, do_hash_here, a, env) ==
    IF i > Len(files) THEN st
    ELSE ProcessFiles(ProcessFile(st, files[i], do_hash_here, a, env),
                      files, i + 1, do_hash_here, a, env)

RECURSIVE ProcessBuckets(_, _, _, _, _)
ProcessBuckets(st, buckets, b, a, env) ==
    IF b > Len(buckets) THEN st
    ELSE ProcessBuckets(
            ProcessFiles(st, buckets[b].v, 1, DoHashHere(a.use_hash, buckets[b].v), a, env),
            buckets, b + 1, a, env)

\* Mutant of OnlyDuplicates: every key is returned, singletons included.
EveryGroup(groups) == groups

\* {k: v for k, v in groups.items() if len(v) > 1}
OnlyDuplicates(groups) ==
    LET keep == {i \in 1..Len(groups) : Len(groups[i].v) > 1}
        RECURSIVE Pick(_)
        Pick(i) == IF i > Len(groups) THEN <<>>
                   ELSE (IF i \in keep THEN <<groups[i]>> ELSE <<>>) \o Pick(i + 1)
    IN Pick(1)

\* Mutant of FindDuplicateGroups: with no criterion selected the defaults of the
\* signature (use_hash=True, use_size=True) are used instead of returning early.
FindDuplicateGroupsDefaulting(entries, a, env) ==
    LET b == IF ~(a.use_hash \/ a.use_size \/ a.use_name \/ a.use_mtime)
             THEN [a EXCEPT !.use_hash = TRUE, !.use_size = TRUE] ELSE a
        st == ProcessBuckets([groups |-> <<>>, hash_skipped |-> 0, hashed |-> <<>>],
                             SizeBuckets(entries, b.use_hash), 1, b, env)
    IN [st EXCEPT !.groups = OnlyDuplicates(@)]

\* find_duplicate_groups(entries, use_hash=..., ..., hash_max_bytes=...):
\* a is the record of keyword arguments, env the disk and platform it reads.
FindDuplicateGroups(entries, a, env) ==
    IF ~(a.use_hash \/ a.use_size \/ a.use_name \/ a.use_mtime)
    THEN [groups |-> <<>>, hash_skipped |-> 0, hashed |-> <<>>]
    ELSE LET st == ProcessBuckets([groups |-> <<>>, hash_skipped |-> 0, hashed |-> <<>>],
                                  SizeBuckets(entries, a.use_hash), 1, a, env)
         IN [st EXCEPT !.groups = OnlyDuplicates(@)]

\* Mutant of SecondCall: groups and hash_skipped live on between calls, the
\* second call goes on from what the first one left.
SecondCallCarrying(first, entries, a, env) ==
    IF ~(a.use_hash \/ a.use_size \/ a.use_name \/ a.use_mtime) THEN first
    ELSE LET st == ProcessBuckets(first, SizeBuckets(entries, a.use_hash), 1, a, env)
         IN [st EXCEPT !.groups = OnlyDuplicates(@)]

\* A call of find_duplicate_groups made after a call that returned first:
\* groups, hash_skipped and size_buckets are locals created by each call.
SecondCall(first, entries, a, env) == FindDuplicateGroups(entries, a, env)

\* find_duplicate_groups(entries, use_hash=True, use_size=False,
\* use_name=False, use_mtime=False, hash_max_bytes=...) on the same records.
HashAlone(entries, a, env) ==
    FindDuplicateGroups(entries,
        [a EXCEPT !.use_hash = TRUE, !.use_size = FALSE,
                  !.use_name = FALSE, !.use_mtime = FALSE], env)

(* --------------------------- delete_files ------------------------------ *)
\* The disk without file p.
Remove(files, p) == [q \in DOMAIN files \ {p} |-> files[q]]

\* Whether removing p raises.  send2trash(str(path)) raises when the file is
\* locked; what it does with a missing path is the library's choice
\* (env.trash_missing_raises).  path.unlink(missing_ok=True) raises when the file
\* is locked and never for a missing path.
RemovalRaises(files, p, env) ==
    IF p \in DOMAIN files THEN p \in env.locked
    ELSE env.trash /\ env.trash_missing_raises

\* The on_error("Delete failed", f"Could not delete {path}:\n{exc}") call.
ErrorCall(files, p) ==
    [title |-> "Delete failed", path |-> p,
     cause |-> IF p \in DOMAIN files THEN "PermissionError" ELSE "FileNotFoundError"]

\* The send2trash or unlink call made for p.
RemovalCall(files, p, env) ==
    [fn |-> IF env.trash THEN "send2trash" ELSE "unlink", path |-> p,
     raised |-> RemovalRaises(files, p, env)]

\* The disk after the attempt on p.
AfterRemoval(files, p, env) ==
    IF p \in DOMAIN files /\ ~RemovalRaises(files, p, env) THEN Remove(files, p) ELSE files

\* Mutant of DeleteOne: the first failure ends the loop (no later path is tried).
DeleteOneAborting(st, p, on_error, env) ==
    IF \E i \in 1..Len(st.calls) : st.calls[i].raised THEN st
    ELSE [files |-> AfterRemoval(st.files, p, env),
          calls |-> Append(st.calls, RemovalCall(st.files, p, env)),
          errors |-> IF RemovalRaises(st.files, p, env) /\ on_error
                     THEN Append(st.errors, ErrorCall(st.files, p)) ELSE st.errors]

\* Mutant of DeleteOne: a path whose trashing failed is unlinked instead.
DeleteOneFallback(st, p, on_error, env) ==
    [files |-> IF p \in DOMAIN st.files THEN Remove(st.files, p) ELSE st.files,
     calls |-> IF env.trash /\ RemovalRaises(st.files, p, env)
               THEN st.calls \o <<RemovalCall(st.files, p, env),
                                  [fn |-> "unlink", path |-> p, raised |-> FALSE]>>
               ELSE Append(st.calls, RemovalCall(st.files, p, env)),
     errors |-> st.errors]

\* One iteration of the loop of delete_files; st is [files, calls, errors].
DeleteOne(st, p, on_error, env) ==
    [files |-> AfterRemoval(st.files, p, env),
     calls |-> Append(st.calls, RemovalCall(st.files, p, env)),
     errors |-> IF RemovalRaises(st.files, p, env) /\ on_error
                THEN Append(st.errors, ErrorCall(st.files, p)) ELSE st.errors]

RECURSIVE DeleteLoop(_, _, _, _, _)
DeleteLoop(st, paths, i, on_error, env) ==
    IF i > Len(paths) THEN st
    ELSE DeleteLoop(DeleteOne(st, paths[i], on_error, env), paths, i + 1, on_error, env)

\* delete_files(paths, on_error=...): on_error is TRUE when a callback is given.
\* Returns the disk afterwards, the send2trash/unlink calls made and the
\* on_error calls made, in order.
DeleteFiles(paths, on_error, env) ==
    DeleteLoop([files |-> env.files, calls |-> <<>>, errors |-> <<>>], paths, 1, on_error, env)

(* ---------------------- gather_recent_files ---------------------------- *)
\* The names a file can have: the original names, and those names after
\* renames (each rename appends "_", see Renamed).
RECURSIVE NameOrder(_)
NameOrder(n) ==
    IF n = 1 THEN << <<"a">>, <<"A">> >>
    ELSE LET shorter == NameOrder(n - 1)
             longest == SelectSeq(shorter, LAMBDA x : Len(x) = n - 1)
         IN shorter \o [i \in 1..Len(longest) |-> Append(longest[i], "_")]

InDir(dir) == [i \in 1..Len(NameOrder(MaxNameLen)) |->
                  [parent |-> dir, name |-> NameOrder(MaxNameLen)[i]]]

\* The directory tree: folder d1 holds files and the subfolder d2.
SubDir == [parent |-> "d1", name |-> <<"d2">>]
IsDir(folder) == folder \in Dirs

\* What a directory listing yields: the files, the subfolder, and the entries
\* that are no file when looked at (a broken symlink, a file that vanished
\* after it was listed).
Listed(env) == DOMAIN env.files \cup env.broken \cup {SubDir}

\* Mutant of Iterator: the walk always descends into the subfolder.
IteratorAlwaysRecursive(folder, include_subfolders, env) ==
    LET all == IF folder = "d1"
               THEN InDir("d1") \o <<SubDir>> \o InDir("d2")
               ELSE InDir(folder)
    IN SeqFilterIdx(all, 1, Listed(env))

\* folder.rglob("*") if include_subfolders else folder.glob("*"): the order
\* of a directory listing is the file system's; one order is fixed here.
Iterator(folder, include_subfolders, env) ==
    LET all == IF folder = "d1"
               THEN InDir("d1") \o <<SubDir>>
                    \o (IF include_subfolders THEN InDir("d2") ELSE <<>>)
               ELSE InDir(folder)
    IN SeqFilterIdx(all, 1, Listed(env))

IsFile(path, env) == path \in DOMAIN env.files
StartsWith(name, prefix) ==
    Len(prefix) <= Len(name) /\ SubSeq(name, 1, Len(prefix)) = prefix

\* Mutant of GatherOne: the file name is compared as it is spelled.
GatherOneCaseSensitive(st, path, cutoff, prefix, env) ==
    IF ~IsFile(path, env) THEN st
    ELSE IF prefix /= <<>> /\ ~StartsWith(path.name, prefix) THEN st
    ELSE IF path \in env.unstatable THEN [st EXCEPT !.skipped = @ + 1]
    ELSE IF cutoff = <<>> \/ env.files[path].mtime >= cutoff[1]
         THEN [st EXCEPT !.entries =
                   Append(@, [path |-> path, size |-> Len(env.files[path].content),
                              mtime |-> env.files[path].mtime])]
         ELSE st

\* One turn of the loop over the iterator; st = [entries, skipped];
\* a cutoff of None is <<>>, a prefix of None is <<>>.  path.is_file() is
\* False for an entry that is gone or a broken link; path.stat() raises
\* OSError for the paths of env.unstatable.
GatherOne(st, path, cutoff, prefix, env) ==
    IF ~IsFile(path, env) THEN st
    ELSE IF prefix /= <<>> /\ ~StartsWith(Casefold(path.name), prefix) THEN st
    ELSE IF path \in env.unstatable THEN [st EXCEPT !.skipped = @ + 1]
    ELSE IF cutoff = <<>> \/ env.files[path].mtime >= cutoff[1]
         THEN [st EXCEPT !.entries =
                   Append(@, [path |-> path, size |-> Len(env.files[path].content),
                              mtime |-> env.files[path].mtime])]
         ELSE st

\* The clock when the i-th entry of the walk is examined.
Clock(i, env) == env.now + (i - 1) * env.walk_delay

\* cutoff = None if days_back <= 0 else now - days_back * 24 * 3600
Cutoff(days_back, now) ==
    IF days_back <= 0 THEN <<>> ELSE <<now - days_back * 24 * 3600 * TicksPerSecond>>

\* Mutant of CutoffAt: the clock is read again for every entry.
CutoffPerEntry(cutoff, days_back, i, env) == Cutoff(days_back, Clock(i, env))

\* The cutoff used for the i-th entry: the one computed before the loop.
CutoffAt(cutoff, days_back, i, env) == cutoff

RECURSIVE GatherLoop(_, _, _, _, _, _, _)
GatherLoop(st, it, i, cutoff, days_back, prefix, env) ==
    IF i > Len(it) THEN st
    ELSE GatherLoop(GatherOne(st, it[i], CutoffAt(cutoff, days_back, i, env), prefix, env),
                    it, i + 1, cutoff, days_back, prefix, env)

\* gather_recent_files(folder, days_back, name_prefix=..., include_subfolders=...);
\* name_prefix None is <<>>.
GatherRecentFiles(folder, days_back, name_prefix, include_subfolders, env) ==
    LET cutoff == Cutoff(days_back, env.now)
        prefix == IF name_prefix /= <<>> THEN Casefold(name_prefix) ELSE <<>>
    IN GatherLoop([entries |-> <<>>, skipped |-> 0],
                  Iterator(folder, include_subfolders, env), 1, cutoff, days_back,
                  prefix, env)

(* ----------------- delete_real_duplicates.py: the window --------------- *)
\* SIMPLIFIED_DEFAULTS (strings are sequences of characters: "" is <<>>).
SIMPLIFIED_DEFAULTS ==
    [days |-> 7, use_hash |-> TRUE, use_size |-> FALSE, use_name |-> FALSE,
     use_mtime |-> FALSE, hash_limit_enabled |-> TRUE, hash_max_mb |-> 500,
     include_subfolders |-> TRUE, name_prefix |-> <<>>,
     skip_same_folder_prompt |-> TRUE, rename_kept_enabled |-> TRUE]

\* DuplicateCleanerUI.__init__ before _load_settings and _apply_view_mode.
\* An empty dict and None are <<>>; a set value is a one-element sequence.
\* tree is the set of groups shown in results_tree.
NewUI ==
    [view_mode |-> "simplified", folder |-> "d1", days |-> 2,
     use_hash |-> TRUE, use_size |-> TRUE, use_name |-> FALSE, use_mtime |-> FALSE,
     hash_limit_enabled |-> TRUE, hash_max_mb |-> 500,
     skip_same_folder_prompt |-> FALSE, rename_kept_enabled |-> FALSE,
     include_subfolders |-> TRUE, name_prefix |-> <<>>,
     scanning |-> FALSE, last_hash_skipped |-> 0, last_scan_skipped |-> 0,
     last_folder |-> <<>>, last_days |-> 0, last_scan_seconds |-> <<>>,
     duplicates |-> <<>>, actions_enabled |-> FALSE, advanced_settings |-> <<>>,
     last_view_mode |-> <<>>, last_scan_mode |-> <<>>, last_scan_settings |-> <<>>,
     closing |-> FALSE, folder_history |-> <<>>,
     scan_btn |-> "normal", delete_btn |-> "disabled", advanced_visible |-> TRUE,
     tree |-> {}]

\* No scan thread is running.
NoWorker == [stage |-> "idle", folder |-> "d1", days |-> 0, entries |-> <<>>,
             scan_skipped |-> 0, duplicates |-> <<>>, hash_skipped |-> 0]

\* No modal dialog is open.  kind is "none" for the main window, the name of
\* the open dialog, or "closed" once the window is destroyed.
NoDialog == [kind |-> "none", groups |-> <<>>, auto_keep |-> <<>>,
             to_delete |-> <<>>, to_keep |-> <<>>,
             selected |-> {}, full_confirmed |-> FALSE, stale |-> FALSE]

\* self.folder_history[:20]
HistoryLimit == 20

\* str.casefold on the folder strings of the model.
CasefoldStr(s) == CASE s = "F1" -> "f1" [] s = "F21" -> "f21" [] OTHER -> s
\* str.strip on the folder strings of the model.
StripStr(s) == CASE s = " f1 " -> "f1" [] s = " " -> "" [] OTHER -> s

\* Mutant of RememberFolder: the old entries are compared as they are written.
RememberFolderCaseSensitive(history, folder_str) ==
    LET kept == SelectSeq(history, LAMBDA p : p /= "" /\ p /= folder_str)
        inserted == <<folder_str>> \o kept
    IN SubSeq(inserted, 1, IF Len(inserted) < HistoryLimit THEN Len(inserted)
                           ELSE HistoryLimit)

\* _remember_folder: folder_str = str(folder)
RememberFolder(history, folder_str) ==
    LET kept == SelectSeq(history, LAMBDA p :
                    p /= "" /\ CasefoldStr(p) /= CasefoldStr(folder_str))
        inserted == <<folder_str>> \o kept
    IN SubSeq(inserted, 1, IF Len(inserted) < HistoryLimit THEN Len(inserted)
                           ELSE HistoryLimit)

\* _load_settings, the loop over recent_folders; st = [seen, folder_history].
RECURSIVE LoadRecents(_, _, _)
LoadRecents(st, recents, i) ==
    IF i > Len(recents) THEN st
    ELSE LET p == StripStr(recents[i])
         IN LoadRecents(IF p /= "" /\ CasefoldStr(p) \notin st.seen
                        THEN [seen |-> st.seen \cup {CasefoldStr(p)},
                              folder_history |-> Append(st.folder_history, p)]
                        ELSE st,
                        recents, i + 1)

\* _load_settings, recent_folders being a list: the other keys of the file
\* are the view mode and the advanced settings.
LoadRecentFolders(u, recents) ==
    [u EXCEPT !.folder_history =
                  LoadRecents([seen |-> {}, folder_history |-> <<>>], recents, 1).folder_history]

\* _snapshot_advanced_settings (show_keep_full_paths only changes the text of
\* the keep dialog and is left out).
SnapshotAdvancedSettings(u) ==
    [days |-> u.days, use_hash |-> u.use_hash, use_size |-> u.use_size,
     use_name |-> u.use_name, use_mtime |-> u.use_mtime,
     hash_limit_enabled |-> u.hash_limit_enabled, hash_max_mb |-> u.hash_max_mb,
     include_subfolders |-> u.include_subfolders,
     name_prefix |-> Strip(u.name_prefix),
     skip_same_folder_prompt |-> u.skip_same_folder_prompt,
     rename_kept_enabled |-> u.rename_kept_enabled]

\* _apply_advanced_settings(settings), settings holding every key.
ApplyAdvancedSettings(u, settings) ==
    [u EXCEPT !.days = settings.days, !.use_hash = settings.use_hash,
              !.use_size = settings.use_size, !.use_name = settings.use_name,
              !.use_mtime = settings.use_mtime,
              !.hash_limit_enabled = settings.hash_limit_enabled,
              !.hash_max_mb = settings.hash_max_mb,
              !.skip_same_folder_prompt = settings.skip_same_folder_prompt,
              !.rename_kept_enabled = settings.rename_kept_enabled,
              !.name_prefix = Strip(settings.name_prefix),
              !.include_subfolders = settings.include_subfolders]

\* _apply_simplified_defaults
ApplySimplifiedDefaults(u) == ApplyAdvancedSettings(u, SIMPLIFIED_DEFAULTS)

\* _render_results with an empty filter: the tree is rebuilt from
\* self.duplicates and the delete button follows it.
RenderResults(u) ==
    IF u.duplicates = <<>>
    THEN [u EXCEPT !.tree = {}, !.delete_btn = "disabled", !.actions_enabled = FALSE]
    ELSE [u EXCEPT !.tree = Range(u.duplicates), !.delete_btn = "normal",
                   !.actions_enabled = TRUE]

\* _render_simplified_summary
RenderSimplifiedSummary(u) ==
    [u EXCEPT !.tree = {}, !.delete_btn = "disabled", !.actions_enabled = FALSE]

\* _apply_view_mode(restore_advanced=...)
ApplyViewMode(u, restore_advanced) ==
    IF u.view_mode = "simplified"
    THEN LET u1 == IF u.last_view_mode /= <<"simplified">>
                   THEN [u EXCEPT !.advanced_settings = <<SnapshotAdvancedSettings(u)>>]
                   ELSE u
         IN [ApplySimplifiedDefaults(u1) EXCEPT
                 !.advanced_visible = FALSE, !.delete_btn = "disabled",
                 !.actions_enabled = FALSE, !.last_view_mode = <<"simplified">>]
    ELSE LET u1 == IF restore_advanced /\ u.advanced_settings /= <<>>
                   THEN ApplyAdvancedSettings(u, u.advanced_settings[1])
                   ELSE u
             u2 == [u1 EXCEPT !.advanced_visible = TRUE]
             u3 == IF u2.last_folder /= <<>>
                      /\ (u2.duplicates /= <<>> \/ u2.last_scan_seconds /= <<>>)
                   THEN RenderResults(u2)
                   ELSE u2
         IN [u3 EXCEPT !.last_view_mode = <<u.view_mode>>]

\* Mutant of SaveSettings: the file gets what the Tk variables hold.
SaveSettingsFromVariables(u) ==
    LET u1 == IF u.view_mode = "advanced"
              THEN [u EXCEPT !.advanced_settings = <<SnapshotAdvancedSettings(u)>>]
              ELSE u
        u2 == IF u1.advanced_settings = <<>>
              THEN [u1 EXCEPT !.advanced_settings = <<SnapshotAdvancedSettings(u1)>>]
              ELSE u1
    IN [ui |-> u2,
        opts |-> [folder |-> u2.folder, days |-> u2.days,
                  use_hash |-> u2.use_hash, use_size |-> u2.use_size,
                  use_name |-> u2.use_name, use_mtime |-> u2.use_mtime,
                  hash_limit_enabled |-> u2.hash_limit_enabled,
                  hash_max_mb |-> u2.hash_max_mb,
                  skip_same_folder_prompt |-> u2.skip_same_folder_prompt,
                  rename_kept_enabled |-> u2.rename_kept_enabled,
                  name_prefix |-> Strip(u2.name_prefix),
                  include_subfolders |-> u2.include_subfolders,
                  recent_folders |-> u2.folder_history,
                  view_mode |-> u2.view_mode]]

\* _save_settings: the window afterwards and the dict that is written.
\* _advanced_settings holds every key once it is set.
SaveSettings(u) ==
    LET u1 == IF u.view_mode = "advanced"
              THEN [u EXCEPT !.advanced_settings = <<SnapshotAdvancedSettings(u)>>]
              ELSE u
        u2 == IF u1.advanced_settings = <<>>
              THEN [u1 EXCEPT !.advanced_settings = <<SnapshotAdvancedSettings(u1)>>]
              ELSE u1
        a == u2.advanced_settings[1]
    IN [ui |-> u2,
        opts |-> [folder |-> u2.folder, days |-> a.days,
                  use_hash |-> a.use_hash, use_size |-> a.use_size,
                  use_name |-> a.use_name, use_mtime |-> a.use_mtime,
                  hash_limit_enabled |-> a.hash_limit_enabled,
                  hash_max_mb |-> a.hash_max_mb,
                  skip_same_folder_prompt |-> a.skip_same_folder_prompt,
                  rename_kept_enabled |-> a.rename_kept_enabled,
                  name_prefix |-> Strip(a.name_prefix),
                  include_subfolders |-> a.include_subfolders,
                  recent_folders |-> u2.folder_history,
                  view_mode |-> u2.view_mode]]

\* Mutant of Scan: _scanning is not looked at.
ScanUnguarded(u, w) ==
    LET u1 == IF u.view_mode = "simplified" THEN ApplySimplifiedDefaults(u) ELSE u
        days == IF u1.days > 0 THEN u1.days ELSE 0
    IN IF ~IsDir(u1.folder)
       THEN [ui |-> u1, worker |-> w, error |-> <<"Invalid folder">>]
       ELSE IF ~(u1.use_hash \/ u1.use_size \/ u1.use_name \/ u1.use_mtime)
       THEN [ui |-> u1, worker |-> w, error |-> <<"No criteria selected">>]
       ELSE [ui |-> [u1 EXCEPT
                       !.scanning = TRUE,
                       !.last_scan_mode = <<u1.view_mode>>,
                       !.last_scan_settings =
                           <<[prefix |-> Strip(u1.name_prefix),
                              include_subfolders |-> u1.include_subfolders,
                              use_hash |-> u1.use_hash, use_size |-> u1.use_size,
                              use_name |-> u1.use_name, use_mtime |-> u1.use_mtime]>>,
                       !.scan_btn = "disabled", !.delete_btn = "disabled",
                       !.tree = {}, !.last_scan_seconds = <<>>,
                       !.last_scan_skipped = 0, !.actions_enabled = FALSE],
             worker |-> [stage |-> "started", folder |-> u1.folder, days |-> days,
                         entries |-> <<>>, scan_skipped |-> 0,
                         duplicates |-> <<>>, hash_skipped |-> 0],
             error |-> <<>>]

\* Mutant of Scan: the folder and the criteria are not validated.
ScanUnvalidated(u, w) ==
    IF u.scanning THEN [ui |-> u, worker |-> w, error |-> <<>>]
    ELSE LET u1 == IF u.view_mode = "simplified" THEN ApplySimplifiedDefaults(u) ELSE u
             days == IF u1.days > 0 THEN u1.days ELSE 0
         IN [ui |-> [u1 EXCEPT
                            !.scanning = TRUE,
                            !.last_scan_mode = <<u1.view_mode>>,
                            !.last_scan_settings =
                                <<[prefix |-> Strip(u1.name_prefix),
                                   include_subfolders |-> u1.include_subfolders,
                                   use_hash |-> u1.use_hash, use_size |-> u1.use_size,
                                   use_name |-> u1.use_name, use_mtime |-> u1.use_mtime]>>,
                            !.scan_btn = "disabled", !.delete_btn = "disabled",
                            !.tree = {}, !.last_scan_seconds = <<>>,
                            !.last_scan_skipped = 0, !.actions_enabled = FALSE],
             worker |-> [stage |-> "started", folder |-> u1.folder, days |-> days,
                         entries |-> <<>>, scan_skipped |-> 0,
                         duplicates |-> <<>>, hash_skipped |-> 0],
             error |-> <<>>]

\* _scan: returns the window and the thread afterwards.
Scan(u, w) ==
    IF u.scanning THEN [ui |-> u, worker |-> w, error |-> <<>>]
    ELSE LET u1 == IF u.view_mode = "simplified" THEN ApplySimplifiedDefaults(u) ELSE u
             days == IF u1.days > 0 THEN u1.days ELSE 0
         IN IF ~IsDir(u1.folder)
            THEN [ui |-> u1, worker |-> w, error |-> <<"Invalid folder">>]
            ELSE IF ~(u1.use_hash \/ u1.use_size \/ u1.use_name \/ u1.use_mtime)
            THEN [ui |-> u1, worker |-> w, error |-> <<"No criteria selected">>]
            ELSE [ui |-> [u1 EXCEPT
                            !.scanning = TRUE,
                            !.last_scan_mode = <<u1.view_mode>>,
                            !.last_scan_settings =
                                <<[prefix |-> Strip(u1.name_prefix),
                                   include_subfolders |-> u1.include_subfolders,
                                   use_hash |-> u1.use_hash, use_size |-> u1.use_size,
                                   use_name |-> u1.use_name, use_mtime |-> u1.use_mtime]>>,
                            !.scan_btn = "disabled", !.delete_btn = "disabled",
                            !.tree = {}, !.last_scan_seconds = <<>>,
                            !.last_scan_skipped = 0, !.actions_enabled = FALSE],
                  worker |-> [stage |-> "started", folder |-> u1.folder, days |-> days,
                              entries |-> <<>>, scan_skipped |-> 0,
                              duplicates |-> <<>>, hash_skipped |-> 0],
                  error |-> <<>>]

\* self._error(title, ...): the modal dialog _scan ends in when it rejects.
ErrorDialog(error) ==
    IF error = <<>> THEN NoDialog ELSE [NoDialog EXCEPT !.kind = error[1]]

\* Mutant of UiAlive: the window is taken to be there always.
UiAliveAlways(u) == TRUE

\* _ui_alive
UiAlive(u) == ~u.closing

\* Mutant of FinishScan: _scanning is left as it is.
FinishScanForgotten(u) == u

\* _finish_scan
FinishScan(u) ==
    IF UiAlive(u) THEN [u EXCEPT !.scanning = FALSE, !.scan_btn = "normal"]
    ELSE [u EXCEPT !.scanning = FALSE]

\* max(files, key=lambda item: item[2])[0]: the first file of greatest mtime.
Newest(files) ==
    files[CHOOSE i \in 1..Len(files) :
              /\ \A j \in 1..Len(files) : files[j].mtime <= files[i].mtime
              /\ \A j \in 1..(i - 1) : files[j].mtime < files[i].mtime].path

\* sorted(files, key=lambda item: item[2], reverse=True): newest first, ties
\* in their original order.
SortedFiles(files) ==
    LET rank(i) == 1 + Cardinality({j \in 1..Len(files) :
                        \/ files[j].mtime > files[i].mtime
                        \/ files[j].mtime = files[i].mtime /\ j < i})
    IN [r \in 1..Len(files) |-> files[CHOOSE i \in 1..Len(files) : rank(i) = r]]

\* The loop over one group: a path equal to the selected one (<<>> is None)
\* is kept, every other path is deleted; st = [to_delete, to_keep].
RECURSIVE SplitFiles(_, _, _, _)
SplitFiles(st, files, i, selected) ==
    IF i > Len(files) THEN st
    ELSE SplitFiles(IF <<files[i].path>> /= selected
                    THEN [st EXCEPT !.to_delete = Append(@, files[i].path)]
                    ELSE [st EXCEPT !.to_keep = Append(@, files[i].path)],
                    files, i + 1, selected)

\* _collect_newest_keep_delete
RECURSIVE CollectNewestFrom(_, _, _)
CollectNewestFrom(st, groups, i) ==
    IF i > Len(groups) THEN st
    ELSE CollectNewestFrom(SplitFiles(st, groups[i].v, 1, <<Newest(groups[i].v)>>),
                           groups, i + 1)

CollectNewestKeepDelete(u) ==
    CollectNewestFrom([to_delete |-> <<>>, to_keep |-> <<>>], u.duplicates, 1)

\* keep_choices.get(key)
DictGet(d, k) == IF HasKey(d, k) THEN <<d[KeyIndex(d, k)].v>> ELSE <<>>
\* d[k] = v
DictSet(d, k, v) ==
    IF HasKey(d, k) THEN [d EXCEPT ![KeyIndex(d, k)].v = v]
    ELSE Append(d, [k |-> k, v |-> v])

Parents(files) == {files[i].path.parent : i \in 1..Len(files)}

\* _delete, the choice of the groups to ask about: with
\* skip_same_folder_prompt a group inside one folder keeps its newest file.
RECURSIVE AutoKeepFrom(_, _)
AutoKeepFrom(groups, i) ==
    IF i > Len(groups) THEN <<>>
    ELSE (IF Cardinality(Parents(groups[i].v)) = 1
          THEN <<[k |-> groups[i].k, v |-> Newest(groups[i].v)]>>
          ELSE <<>>) \o AutoKeepFrom(groups, i + 1)

AutoKeep(u) == IF u.skip_same_folder_prompt THEN AutoKeepFrom(u.duplicates, 1) ELSE <<>>

ManualGroups(u) ==
    IF u.skip_same_folder_prompt
    THEN SelectSeq(u.duplicates, LAMBDA g : Cardinality(Parents(g.v)) /= 1)
    ELSE u.duplicates

\* _prompt_keep_choices, on_ok: idx[i] is the radio button chosen for group i
\* (counted from 1), over the files sorted newest first.
RECURSIVE Selection(_, _, _)
Selection(groups, idx, i) ==
    IF i > Len(groups) THEN <<>>
    ELSE <<[k |-> groups[i].k, v |-> SortedFiles(groups[i].v)[idx[i]].path]>>
         \o Selection(groups, idx, i + 1)

\* keep_choices.update(manual_choices)
RECURSIVE DictUpdate(_, _, _)
DictUpdate(d, other, i) ==
    IF i > Len(other) THEN d
    ELSE DictUpdate(DictSet(d, other[i].k, other[i].v), other, i + 1)

\* _delete, "Decide which files to delete based on user choices": the loop
\* over self.duplicates as it is when the loop runs.
RECURSIVE DecideFrom(_, _, _, _)
DecideFrom(st, groups, i, keep_choices) ==
    IF i > Len(groups) THEN st
    ELSE DecideFrom(SplitFiles(st, groups[i].v, 1, DictGet(keep_choices, groups[i].k)),
                    groups, i + 1, keep_choices)

Decide(u, keep_choices) ==
    DecideFrom([to_delete |-> <<>>, to_keep |-> <<>>], u.duplicates, 1, keep_choices)

\* path.with_name(f"{stem}_{timestamp}_{counter:03d}{suffix}"): the renamed
\* file stays in its folder under a longer name.
Renamed(path) == [path EXCEPT !.name = Append(@, "_")]

\* The first candidate that is not occupied.
RECURSIVE Candidate(_, _)
Candidate(path, occupied) ==
    IF Renamed(path) \notin occupied THEN Renamed(path)
    ELSE Candidate(Renamed(path), occupied)

\* path.rename(candidate): fails (and changes nothing) when path is gone.
RenameOne(st, path) ==
    LET candidate == Candidate(path, st.occupied)
    IN IF path \notin DOMAIN st.files THEN st
       ELSE [files |-> [q \in (DOMAIN st.files \ {path}) \cup {candidate} |->
                           IF q = candidate THEN st.files[path] ELSE st.files[q]],
             occupied |-> st.occupied \cup {candidate}]

RECURSIVE RenameLoop(_, _, _)
RenameLoop(st, kept, i) ==
    IF i > Len(kept) THEN st
    ELSE RenameLoop(RenameOne(st, kept[i]), kept, i + 1)

\* _rename_conflicting_kept_files(kept, deleting) with rename_kept_enabled
\* set: every kept file is renamed.  Returns the disk afterwards.
RenameConflictingKeptFiles(kept, deleting, env) ==
    RenameLoop([files |-> env.files,
                occupied |-> (Range(kept) \cup Range(deleting)) \cap DOMAIN env.files],
               kept, 1).files

\* _delete_selected: the rows of results_tree.  A group row is a group of
\* the tree, a file row is its path; selecting a group row selects its files.
FilePaths(group) == {group.v[i].path : i \in 1..Len(group.v)}
TreePaths(tree) == UNION {FilePaths(g) : g \in tree}

\* _collect_selected_file_ids: the groups with a selected file row.
GroupsAffected(tree, selected) == {g \in tree : FilePaths(g) \cap selected /= {}}

\* Mutant of FullySelectedGroups: no group is ever reported as fully selected.
FullySelectedNone(tree, selected) == {}

\* _fully_selected_groups
FullySelectedGroups(tree, selected) ==
    {g \in GroupsAffected(tree, selected) : FilePaths(g) \subseteq selected}

\* The loop over groups_affected and their rows (newest first, as rendered):
\* a selected row is deleted, any other row of an affected group is kept.
RECURSIVE SelectedFrom(_, _, _, _, _)
SelectedFrom(groups, i, tree, selected, st) ==
    IF i > Len(groups) THEN st
    ELSE IF groups[i] \notin GroupsAffected(tree, selected)
    THEN SelectedFrom(groups, i + 1, tree, selected, st)
    ELSE LET files == SortedFiles(groups[i].v)
             paths == [j \in 1..Len(files) |-> files[j].path]
         IN SelectedFrom(groups, i + 1, tree, selected,
                [to_delete |-> st.to_delete \o SeqFilterIdx(paths, 1, selected),
                 to_keep |-> st.to_keep \o SeqFilterIdx(paths, 1, Range(paths) \ selected)])

\* _delete_selected from the loop to its confirmation dialog.
ConfirmSelectedOpen(u, selected, full_confirmed) ==
    LET lists == SelectedFrom(u.duplicates, 1, u.tree, selected,
                              [to_delete |-> <<>>, to_keep |-> <<>>])
    IN IF lists.to_delete = <<>> THEN NoDialog
       ELSE [NoDialog EXCEPT !.kind = "confirm_selected", !.groups = u.duplicates,
                             !.to_delete = lists.to_delete, !.to_keep = lists.to_keep,
                             !.selected = selected, !.full_confirmed = full_confirmed]

(* ------------------------------ state ---------------------------------- *)
VARIABLES
    env,        \* the disk and the platform: [files, unreadable, nt, trash, locked,
                \*   trash_missing_raises, now, unstatable, broken, walk_delay,
                \*   settings]; settings is the settings file, <<>> when it is absent
    entries,    \* the FileEntry list handed to the grouper
    args,       \* keyword arguments of find_duplicate_groups
    outcome,    \* its return value (plus the list of files it read)
    again,      \* the return value of a second, identical call
    gcall,      \* a call of gather_recent_files: its arguments and its return value
    pc,         \* "input" before a call of the engine, "done" after it, "ui" in the window
    dcall,      \* the last call of delete_files: [op, paths, on_error, keep, groups, before];
                \*   also the last operation on the recent folders and its argument
    dlog,       \* what that call did: [calls, errors]
    ui,         \* the fields of DuplicateCleanerUI (Tk variables, widget states, last-scan data)
    worker,     \* the scan thread: its position and its locals
    dlg         \* the open modal dialog and the locals of the handler waiting for it

vars == <<env, entries, args, outcome, again, gcall, pc, dcall, dlog, ui, worker, dlg>>

NoCall == [op |-> "none", paths |-> <<>>, on_error |-> FALSE, keep |-> <<>>,
           groups |-> <<>>, before |-> {}]
NoLog == [calls |-> <<>>, errors |-> <<>>]
\* No call of gather_recent_files.
NoGather == [op |-> "none", folder |-> "d1", days_back |-> 0, name_prefix |-> <<>>,
             include_subfolders |-> TRUE, entries |-> <<>>, skipped |-> 0]

Args == [use_hash : BOOLEAN, use_size : BOOLEAN, use_name : BOOLEAN,
         use_mtime : BOOLEAN, hash_max_bytes : HashCaps]

NoOutcome == [groups |-> <<>>, hash_skipped |-> 0, hashed |-> <<>>]

Disks ==
    UNION {[S -> FileData] : S \in {T \in SUBSET Paths : Cardinality(T) <= MaxFiles}}

InitGroup ==
    /\ \E files \in Disks, nt \in BOOLEAN :
         \E bad \in {U \in SUBSET DOMAIN files : Cardinality(U) <= MaxUnreadable} :
            env = [files |-> files, unreadable |-> bad, nt |-> nt, trash |-> FALSE,
                   locked |-> {}, trash_missing_raises |-> FALSE,
                   now |-> Now, unstatable |-> {},
                   broken |-> {}, walk_delay |-> 0, settings |-> <<>>]
    /\ entries = MakeEntries(env)
    /\ args \in Args
    /\ outcome = NoOutcome
    /\ again = NoOutcome
    /\ gcall = NoGather
    /\ pc = "input"
    /\ dcall = NoCall
    /\ dlog = NoLog
    /\ ui = NewUI
    /\ worker = NoWorker
    /\ dlg = NoDialog

\* The call: groups, hash_skipped = find_duplicate_groups(entries, **args)
Group ==
    /\ pc = "input"
    /\ outcome' = FindDuplicateGroups(entries, args, env)
    /\ pc' = "done"
    /\ UNCHANGED <<env, entries, args, again, gcall, dcall, dlog, ui, worker, dlg>>

NextGroup == Group

SpecGroup == InitGroup /\ [][NextGroup]_vars

(* ------------------- delete_files called on its own -------------------- *)
\* Every list of at most n paths (a path may occur twice, or not exist).
RECURSIVE PathLists(_)
PathLists(n) ==
    IF n = 0 THEN {<<>>}
    ELSE LET shorter == PathLists(n - 1)
         IN shorter \cup {Append(l, p) : l \in {x \in shorter : Len(x) = n - 1}, p \in Paths}

NoArgs == [use_hash |-> FALSE, use_size |-> FALSE, use_name |-> FALSE,
           use_mtime |-> FALSE, hash_max_bytes |-> NoCap]

InitDelete ==
    /\ \E present \in SUBSET Paths, trash \in BOOLEAN, tmr \in BOOLEAN :
         \E locked \in {L \in SUBSET present : Cardinality(L) <= MaxLocked} :
            env = [files |-> [p \in present |-> [content |-> <<1>>, mtime |-> 1]],
                   unreadable |-> {}, nt |-> FALSE, trash |-> trash, locked |-> locked,
                   trash_missing_raises |-> trash /\ tmr,
                   now |-> Now, unstatable |-> {},
                   broken |-> {}, walk_delay |-> 0, settings |-> <<>>]
    /\ \E paths \in PathLists(MaxDeletePaths), on_error \in BOOLEAN :
         dcall = [NoCall EXCEPT !.op = "pending", !.paths = paths, !.on_error = on_error,
                                !.before = DOMAIN env.files]
    /\ dlog = NoLog
    /\ entries = <<>>
    /\ args = NoArgs
    /\ outcome = NoOutcome
    /\ again = NoOutcome
    /\ gcall = NoGather
    /\ pc = "input"
    /\ ui = NewUI
    /\ worker = NoWorker
    /\ dlg = NoDialog

\* The call: delete_files(paths, on_error=on_error)
Delete ==
    /\ pc = "input"
    /\ dcall.op = "pending"
    /\ LET r == DeleteFiles(dcall.paths, dcall.on_error, env)
       IN /\ env' = [env EXCEPT !.files = r.files]
          /\ dlog' = [calls |-> r.calls, errors |-> r.errors]
    /\ dcall' = [dcall EXCEPT !.op = "delete_files"]
    /\ pc' = "done"
    /\ UNCHANGED <<entries, args, outcome, again, gcall, ui, worker, dlg>>

NextDelete == Delete

SpecDelete == InitDelete /\ [][NextDelete]_vars

(* --------------------------- the window -------------------------------- *)
\* The checkbuttons the modelled user clicks.
Toggleable == {"use_size", "skip_same_folder_prompt"}

\* The disks the window is opened on: a file at three paths, two of them
\* in one folder; the first file is the oldest (or tied), the others vary.
UIPaths == {p \in Paths : p.parent = "d1" \/ p.name = <<"a">>}
FirstPath == PathOrder[1]
UIDisks ==
    {d \in [UIPaths -> [content : {<<1>>, <<2>>}, mtime : MTimes]] :
        d[FirstPath] = [content |-> <<1>>, mtime |-> 1]}

\* DuplicateCleanerUI(root): the constructor ends with _load_settings (the
\* settings file may hold either view mode) and _apply_view_mode.
InitUI ==
    /\ \E files \in UIDisks :
         env = [files |-> files, unreadable |-> {}, nt |-> FALSE, trash |-> FALSE,
                locked |-> {}, trash_missing_raises |-> FALSE,
                now |-> Now, unstatable |-> {},
                   broken |-> {}, walk_delay |-> 0, settings |-> <<>>]
    /\ \E mode \in {"simplified", "advanced"} :
         ui = ApplyViewMode([NewUI EXCEPT !.view_mode = mode], TRUE)
    /\ worker = NoWorker
    /\ dlg = NoDialog
    /\ dcall = NoCall
    /\ dlog = NoLog
    /\ entries = <<>>
    /\ args = NoArgs
    /\ outcome = NoOutcome
    /\ again = NoOutcome
    /\ gcall = NoGather
    /\ pc = "ui"

\* Input reaches the main window only while no modal dialog holds the grab.
MainWindow == pc = "ui" /\ dlg.kind = "none"

\* The Scan button: command=self._scan
ScanClick ==
    /\ MainWindow
    /\ ui.scan_btn = "normal"
    /\ LET r == Scan(ui, worker)
       IN ui' = r.ui /\ worker' = r.worker /\ dlg' = ErrorDialog(r.error)
    /\ dcall' = NoCall /\ dlog' = NoLog /\ args' = NoArgs /\ gcall' = NoGather
    /\ UNCHANGED <<env, entries, outcome, again, pc>>

\* A view radio button: sets view_mode, then command=self._on_view_change
ViewClick ==
    /\ MainWindow
    /\ \E mode \in {"simplified", "advanced"} :
         ui' = ApplyViewMode([ui EXCEPT !.view_mode = mode], TRUE)
    /\ dcall' = NoCall /\ dlog' = NoLog /\ args' = NoArgs /\ gcall' = NoGather
    /\ UNCHANGED <<env, entries, outcome, again, pc, worker, dlg>>

\* A checkbutton of the advanced view flips its variable.
Toggle ==
    /\ MainWindow
    /\ ui.advanced_visible
    /\ \E option \in Toggleable : ui' = [ui EXCEPT ![option] = ~@]
    /\ dcall' = NoCall /\ dlog' = NoLog /\ args' = NoArgs /\ gcall' = NoGather
    /\ UNCHANGED <<env, entries, outcome, again, pc, worker, dlg>>

\* _run_scan_thread up to the return of gather_recent_files: the thread
\* reads prefix_var and include_subfolders when it gets there.
WorkerGather ==
    /\ pc = "ui"
    /\ worker.stage = "started"
    /\ LET r == GatherRecentFiles(worker.folder, worker.days, Strip(ui.name_prefix),
                                  ui.include_subfolders, env)
       IN /\ worker' = [worker EXCEPT !.stage = "gathered", !.entries = r.entries,
                                      !.scan_skipped = r.skipped]
          /\ gcall' = [op |-> "gather_recent_files", folder |-> worker.folder,
                       days_back |-> worker.days,
                       name_prefix |-> Strip(ui.name_prefix),
                       include_subfolders |-> ui.include_subfolders,
                       entries |-> r.entries, skipped |-> r.skipped]
    /\ dcall' = NoCall /\ dlog' = NoLog /\ args' = NoArgs
    /\ UNCHANGED <<env, entries, outcome, again, pc, ui, dlg>>

\* _run_scan_thread from hash_limit to _safe_after: the thread reads the
\* criteria variables when it gets there; the callback is dropped when the
\* window is closing.
WorkerGroup ==
    /\ pc = "ui"
    /\ worker.stage = "gathered"
    /\ LET hash_limit == IF ui.use_hash /\ ui.hash_limit_enabled
                         THEN ui.hash_max_mb * 1024 * 1024 ELSE NoCap
           passed == [use_hash |-> ui.use_hash, use_size |-> ui.use_size,
                      use_name |-> ui.use_name, use_mtime |-> ui.use_mtime,
                      hash_max_bytes |-> hash_limit]
           r == FindDuplicateGroups(worker.entries, passed, env)
       IN /\ worker' = IF UiAlive(ui)
                       THEN [worker EXCEPT !.stage = "posted", !.duplicates = r.groups,
                                           !.hash_skipped = r.hash_skipped]
                       ELSE NoWorker
          /\ args' = passed
    /\ dcall' = NoCall /\ dlog' = NoLog /\ gcall' = NoGather
    /\ UNCHANGED <<env, entries, outcome, again, pc, ui, dlg>>

\* _simplified_confirm_and_delete up to its dialog: the lists are computed
\* before the dialog opens.
SimplifiedConfirmOpen(u) ==
    LET lists == CollectNewestKeepDelete(u)
    IN IF u.duplicates = <<>> \/ lists.to_delete = <<>> THEN NoDialog
       ELSE [NoDialog EXCEPT !.kind = "confirm_simplified",
                             !.to_delete = lists.to_delete, !.to_keep = lists.to_keep]

\* _on_scan_complete, run by the event loop (also the nested loop of a dialog).
OnScanComplete ==
    /\ pc = "ui"
    /\ worker.stage = "posted"
    /\ worker' = NoWorker
    /\ IF ~UiAlive(ui) THEN UNCHANGED <<ui, dlg>>
       ELSE LET u1 == [ui EXCEPT !.duplicates = worker.duplicates,
                                 !.last_hash_skipped = worker.hash_skipped,
                                 !.last_scan_skipped = worker.scan_skipped,
                                 !.last_scan_seconds = <<"elapsed">>,
                                 !.last_folder = <<worker.folder>>,
                                 !.last_days = worker.days,
                                 !.folder_history =
                                     RememberFolder(@, worker.folder)]
            IN IF u1.view_mode = "simplified"
               THEN /\ ui' = FinishScan(RenderSimplifiedSummary(u1))
                    /\ dlg' = IF dlg.kind = "none" THEN SimplifiedConfirmOpen(ui') ELSE dlg
               ELSE /\ ui' = FinishScan(RenderResults(u1))
                    /\ dlg' = IF dlg.kind = "full_group"
                              THEN [dlg EXCEPT !.stale = TRUE] ELSE dlg
    /\ dcall' = NoCall /\ dlog' = NoLog /\ args' = NoArgs /\ gcall' = NoGather
    /\ UNCHANGED <<env, entries, outcome, again, pc>>

\* _delete from "Decide which files to delete" to its confirmation dialog.
ConfirmOpen(u, keep_choices) ==
    LET lists == Decide(u, keep_choices)
    IN IF lists.to_delete = <<>> THEN NoDialog
       ELSE [NoDialog EXCEPT !.kind = "confirm", !.to_delete = lists.to_delete,
                             !.to_keep = lists.to_keep]

\* The Delete duplicates button: command=self._delete, up to the first dialog.
DeleteClick ==
    /\ MainWindow
    /\ ui.advanced_visible
    /\ ui.delete_btn = "normal"
    /\ dlg' = IF ui.duplicates = <<>> THEN NoDialog
              ELSE IF ManualGroups(ui) /= <<>>
              THEN [NoDialog EXCEPT !.kind = "keep_choices", !.groups = ManualGroups(ui),
                                    !.auto_keep = AutoKeep(ui)]
              ELSE ConfirmOpen(ui, AutoKeep(ui))
    /\ dcall' = NoCall /\ dlog' = NoLog /\ args' = NoArgs /\ gcall' = NoGather
    /\ UNCHANGED <<env, entries, outcome, again, pc, ui, worker>>

\* OK in the keep-choice dialog; _delete goes on to its confirmation.
KeepChoicesOk ==
    /\ pc = "ui"
    /\ dlg.kind = "keep_choices"
    /\ \E idx \in [1..Len(dlg.groups) -> 1..MaxFiles] :
         /\ \A i \in 1..Len(dlg.groups) : idx[i] <= Len(dlg.groups[i].v)
         /\ dlg' = ConfirmOpen(ui, DictUpdate(dlg.auto_keep,
                                              Selection(dlg.groups, idx, 1), 1))
    /\ dcall' = NoCall /\ dlog' = NoLog /\ args' = NoArgs /\ gcall' = NoGather
    /\ UNCHANGED <<env, entries, outcome, again, pc, ui, worker>>

\* Cancel in a dialog (or closing it): the handler returns.
DialogCancel ==
    /\ pc = "ui"
    /\ dlg.kind \notin {"none", "closed"}
    /\ dlg' = NoDialog
    /\ dcall' = NoCall /\ dlog' = NoLog /\ args' = NoArgs /\ gcall' = NoGather
    /\ UNCHANGED <<env, entries, outcome, again, pc, ui, worker>>

\* Review in Advanced, in the dialog of the simplified view.
SimplifiedReview ==
    /\ pc = "ui"
    /\ dlg.kind = "confirm_simplified"
    /\ ui' = ApplyViewMode([ui EXCEPT !.view_mode = "advanced"], TRUE)
    /\ dlg' = NoDialog
    /\ dcall' = NoCall /\ dlog' = NoLog /\ args' = NoArgs /\ gcall' = NoGather
    /\ UNCHANGED <<env, entries, outcome, again, pc, worker>>

\* Every kept file that is renamed still has a name within the bound.
RenameInBounds ==
    ui.rename_kept_enabled =>
        \A i \in 1..Len(dlg.to_keep) :
            dlg.to_keep[i] \in DOMAIN env.files => Len(dlg.to_keep[i].name) < MaxNameLen

\* "Yes, delete" / "Delete duplicates" in a confirmation dialog: the rest of
\* _delete and of _simplified_confirm_and_delete (rename, delete_files with
\* on_error=self._error, the Done message, _scan).
ConfirmDelete ==
    /\ pc = "ui"
    /\ dlg.kind \in {"confirm", "confirm_simplified", "confirm_selected"}
    /\ RenameInBounds
    /\ LET renamed == IF ui.rename_kept_enabled
                      THEN RenameConflictingKeptFiles(dlg.to_keep, dlg.to_delete, env)
                      ELSE env.files
           d == DeleteFiles(dlg.to_delete, TRUE, [env EXCEPT !.files = renamed])
           r == Scan(ui, worker)
       IN /\ env' = [env EXCEPT !.files = d.files]
          /\ dcall' = [op |-> IF dlg.kind = "confirm" THEN "_delete"
                              ELSE IF dlg.kind = "confirm_selected" THEN "_delete_selected"
                              ELSE "_simplified_confirm_and_delete",
                       paths |-> dlg.to_delete, on_error |-> TRUE,
                       keep |-> dlg.to_keep, groups |-> ui.duplicates,
                       before |-> DOMAIN env.files]
          /\ dlog' = [calls |-> d.calls, errors |-> d.errors]
          /\ ui' = r.ui
          /\ worker' = r.worker
          /\ dlg' = ErrorDialog(r.error)
    /\ args' = NoArgs /\ gcall' = NoGather
    /\ UNCHANGED <<entries, outcome, again, pc>>

NextUI ==
    \/ ScanClick
    \/ ViewClick
    \/ Toggle
    \/ WorkerGather
    \/ WorkerGroup
    \/ OnScanComplete
    \/ DeleteClick
    \/ KeepChoicesOk
    \/ DialogCancel
    \/ SimplifiedReview
    \/ ConfirmDelete

SpecUI == InitUI /\ [][NextUI]_vars

(* --------------- the window with rows of the tree selected ------------- *)
\* "Delete selected" (the button or the entry of the context menu) on a
\* non-empty selection of file rows, up to the first dialog.
DeleteSelectedClick ==
    /\ MainWindow
    /\ ui.advanced_visible
    /\ ui.tree /= {}
    /\ \E selected \in (SUBSET TreePaths(ui.tree)) \ {{}} :
         dlg' = IF FullySelectedGroups(ui.tree, selected) /= {}
                THEN [NoDialog EXCEPT !.kind = "full_group", !.groups = ui.duplicates,
                                      !.selected = selected]
                ELSE ConfirmSelectedOpen(ui, selected, FALSE)
    /\ dcall' = NoCall /\ dlog' = NoLog /\ args' = NoArgs /\ gcall' = NoGather
    /\ UNCHANGED <<env, entries, outcome, again, pc, ui, worker>>

\* "Delete Selected (Including Full Groups)" in the full-group dialog:
\* _delete_selected goes on to its loop over the rows; the rows it holds are
\* gone when the tree was rebuilt meanwhile, and the handler ends in a TclError.
FullGroupOk ==
    /\ pc = "ui"
    /\ dlg.kind = "full_group"
    /\ dlg' = IF dlg.stale THEN NoDialog
              ELSE ConfirmSelectedOpen(ui, dlg.selected, TRUE)
    /\ dcall' = NoCall /\ dlog' = NoLog /\ args' = NoArgs /\ gcall' = NoGather
    /\ UNCHANGED <<env, entries, outcome, again, pc, ui, worker>>

NextSelect ==
    \/ ScanClick
    \/ ViewClick
    \/ WorkerGather
    \/ WorkerGroup
    \/ OnScanComplete
    \/ DeleteClick
    \/ KeepChoicesOk
    \/ DialogCancel
    \/ SimplifiedReview
    \/ ConfirmDelete
    \/ DeleteSelectedClick
    \/ FullGroupOk

(* ------------------- the window with a failing scan -------------------- *)
\* _run_scan_thread raises (the folder vanished under rglob, a Tk variable
\* could not be read): the except clause posts the error dialog and
\* _finish_scan through _safe_after, which drops both when the window is closing.
WorkerRaise ==
    /\ pc = "ui"
    /\ worker.stage \in {"started", "gathered"}
    /\ worker' = IF UiAlive(ui) THEN [worker EXCEPT !.stage = "failed"] ELSE NoWorker
    /\ dcall' = NoCall /\ dlog' = NoLog /\ args' = NoArgs /\ gcall' = NoGather
    /\ UNCHANGED <<env, entries, outcome, again, pc, ui, dlg>>

\* The two callbacks of the except clause, run by the event loop.  The first
\* one reads exc after the except clause has unbound it and ends in a
\* NameError: no dialog opens.  The second one is _finish_scan.
OnScanFailed ==
    /\ pc = "ui"
    /\ worker.stage = "failed"
    /\ worker' = NoWorker
    /\ ui' = FinishScan(ui)
    /\ dcall' = NoCall /\ dlog' = NoLog /\ args' = NoArgs /\ gcall' = NoGather
    /\ UNCHANGED <<env, entries, outcome, again, pc, dlg>>

(* ------------- the window with the scan settings edited ---------------- *)
\* What the folder box holds: the folder of the files, or a path that is no
\* directory.
Folders == {"d1", "gone"}
\* The criteria checkbuttons the modelled user clicks.
Criteria == {"use_hash", "use_size"}
\* Files of one age: identical, or the file of the subfolder differs.
ConfigDisks == {d \in UIDisks : \A p \in UIPaths : d[p].mtime = 1}

InitConfig == InitUI /\ env.files \in ConfigDisks

\* Typing in the folder box (textvariable=self.folder_var).
FolderEdit ==
    /\ MainWindow
    /\ \E folder \in Folders : ui' = [ui EXCEPT !.folder = folder]
    /\ dcall' = NoCall /\ dlog' = NoLog /\ args' = NoArgs /\ gcall' = NoGather
    /\ UNCHANGED <<env, entries, outcome, again, pc, worker, dlg>>

\* A checkbutton of the "Duplicate checks" frame flips its variable.
ToggleCriterion ==
    /\ MainWindow
    /\ ui.advanced_visible
    /\ \E option \in Criteria : ui' = [ui EXCEPT ![option] = ~@]
    /\ dcall' = NoCall /\ dlog' = NoLog /\ args' = NoArgs /\ gcall' = NoGather
    /\ UNCHANGED <<env, entries, outcome, again, pc, worker, dlg>>

NextConfig ==
    \/ ScanClick
    \/ ViewClick
    \/ FolderEdit
    \/ ToggleCriterion
    \/ WorkerGather
    \/ WorkerGroup
    \/ OnScanComplete
    \/ DialogCancel

SpecConfig == InitConfig /\ [][NextConfig]_vars

SpecSelect == InitConfig /\ [][NextSelect]_vars

\* The window stays open; the thread runs on, and the event loop runs the
\* callbacks posted to it.
InitLive == InitConfig /\ \A p \in UIPaths : env.files[p].content = <<1>>

NextLive ==
    \/ ScanClick
    \/ ViewClick
    \/ ToggleCriterion
    \/ WorkerGather
    \/ WorkerGroup
    \/ WorkerRaise
    \/ OnScanComplete
    \/ OnScanFailed
    \/ DialogCancel

\* The daemon thread of _scan is between its start and its last statement.
ThreadRunning == pc = "ui" /\ worker.stage \in {"started", "gathered"}
\* One step of _run_scan_thread, whichever it is.
ThreadStep == WorkerGather \/ WorkerGroup \/ WorkerRaise

\* The operating system schedules the thread: weak fairness of ThreadStep,
\* with ENABLED <<ThreadStep>>_vars written out as ThreadRunning (every step
\* of the thread changes worker.stage).  mainloop runs every callback that
\* root.after queued: weak fairness of the two callbacks.
SpecLive ==
    /\ InitLive
    /\ [][NextLive]_vars
    /\ ([]<>~ThreadRunning \/ []<><<ThreadStep>>_vars)
    /\ WF_vars(OnScanComplete)
    /\ WF_vars(OnScanFailed)

(* ------------------- the window closed during a scan ------------------- *)
\* root.destroy() has run: there is no window and no dialog to act on.
Closed == [NoDialog EXCEPT !.kind = "closed"]

\* _on_close, from WM_DELETE_WINDOW: _closing is set, the settings are saved
\* (a failing write is passed over) and root.destroy() takes the window and
\* every dialog with it, so a handler waiting in wait_window returns with the
\* result of a closed dialog.  The thread is a daemon and is not joined; a
\* callback that root.after has queued stays queued.
OnClose ==
    /\ pc = "ui"
    /\ ~ui.closing
    /\ LET saved == SaveSettings([ui EXCEPT !.closing = TRUE])
       IN /\ ui' = saved.ui
          /\ \E written \in BOOLEAN :
               env' = IF written THEN [env EXCEPT !.settings = <<saved.opts>>] ELSE env
    /\ dlg' = Closed
    /\ dcall' = NoCall /\ dlog' = NoLog /\ args' = NoArgs /\ gcall' = NoGather
    /\ UNCHANGED <<entries, outcome, again, pc, worker>>

NextClose ==
    \/ ScanClick
    \/ ViewClick
    \/ WorkerGather
    \/ WorkerGroup
    \/ WorkerRaise
    \/ OnScanComplete
    \/ OnScanFailed
    \/ DeleteClick
    \/ KeepChoicesOk
    \/ DialogCancel
    \/ SimplifiedReview
    \/ ConfirmDelete
    \/ OnClose

SpecClose == InitConfig /\ [][NextClose]_vars

(* ------------------------ the recent folders --------------------------- *)
\* Folder strings a settings file can list, in the order it lists them.
HistoryNames ==
    <<"f1", "f2", "f3", "f4", "f5", "f6", "f7", "f8", "f9", "f10", "f11",
      "f12", "f13", "f14", "f15", "f16", "f17", "f18", "f19", "f20", "f21">>
\* recent_folders of the settings file: absent, one short of the limit, at
\* the limit, one over it (the file is plain JSON and can be edited), and a
\* list with repeated, padded and empty strings.
HistoryFiles ==
    {<<>>,
     SubSeq(HistoryNames, 1, HistoryLimit - 1),
     SubSeq(HistoryNames, 1, HistoryLimit),
     SubSeq(HistoryNames, 1, HistoryLimit + 1),
     <<"f1", "F1", " f1 ", "", " ", "f2">>}
\* The folders the directory chooser returns.
BrowseFolders == {"f1", "F1", "F21", "f22"}

\* DuplicateCleanerUI(root) with a settings file that lists recent folders.
InitHistory ==
    /\ env = [files |-> [p \in {} |-> 0], unreadable |-> {}, nt |-> FALSE,
              trash |-> FALSE, locked |-> {}, trash_missing_raises |-> FALSE,
              now |-> Now, unstatable |-> {}, broken |-> {}, walk_delay |-> 0, settings |-> <<>>]
    /\ \E mode \in {"simplified", "advanced"}, recents \in HistoryFiles :
         /\ ui = ApplyViewMode(LoadRecentFolders([NewUI EXCEPT !.view_mode = mode],
                                                 recents), TRUE)
         /\ dcall = [NoCall EXCEPT !.op = "_load_settings", !.paths = recents]
    /\ worker = NoWorker
    /\ dlg = NoDialog
    /\ dlog = NoLog
    /\ entries = <<>>
    /\ args = NoArgs
    /\ outcome = NoOutcome
    /\ again = NoOutcome
    /\ gcall = NoGather
    /\ pc = "ui"

\* The Browse button: command=self._browse_folder, a folder being chosen.
BrowseFolder ==
    /\ MainWindow
    /\ \E folder \in BrowseFolders :
         /\ ui' = [ui EXCEPT !.folder = folder,
                             !.folder_history = RememberFolder(@, folder)]
         /\ dcall' = [NoCall EXCEPT !.op = "_remember_folder", !.paths = <<folder>>]
    /\ dlog' = NoLog /\ args' = NoArgs /\ gcall' = NoGather
    /\ UNCHANGED <<env, entries, outcome, again, pc, worker, dlg>>

\* The Clear history button: command=self._clear_folder_history
ClearFolderHistory ==
    /\ MainWindow
    /\ ui' = [ui EXCEPT !.folder_history = <<>>]
    /\ dcall' = [NoCall EXCEPT !.op = "_clear_folder_history"]
    /\ dlog' = NoLog /\ args' = NoArgs /\ gcall' = NoGather
    /\ UNCHANGED <<env, entries, outcome, again, pc, worker, dlg>>

NextHistory ==
    \/ BrowseFolder
    \/ ClearFolderHistory
    \/ ViewClick

SpecHistory == InitHistory /\ [][NextHistory]_vars

(* ------------- the advanced settings edited, window closed ------------- *)
\* What the user types in the prefix box: a prefix that ends in a blank.
EditedPrefixes == {<<"a", " ">>}
\* What the user sets the days spinbox to.
EditedDays == {30}

\* The prefix entry (textvariable=self.prefix_var), shown in advanced view.
PrefixEdit ==
    /\ MainWindow
    /\ ui.advanced_visible
    /\ \E prefix \in EditedPrefixes : ui' = [ui EXCEPT !.name_prefix = prefix]
    /\ dcall' = NoCall /\ dlog' = NoLog /\ args' = NoArgs /\ gcall' = NoGather
    /\ UNCHANGED <<env, entries, outcome, again, pc, worker, dlg>>

\* The days spinbox (textvariable=self.days_var), shown in advanced view.
DaysEdit ==
    /\ MainWindow
    /\ ui.advanced_visible
    /\ \E days \in EditedDays : ui' = [ui EXCEPT !.days = days]
    /\ dcall' = NoCall /\ dlog' = NoLog /\ args' = NoArgs /\ gcall' = NoGather
    /\ UNCHANGED <<env, entries, outcome, again, pc, worker, dlg>>

NextSettings ==
    \/ ScanClick
    \/ ViewClick
    \/ ToggleCriterion
    \/ PrefixEdit
    \/ DaysEdit
    \/ WorkerGather
    \/ WorkerGroup
    \/ OnScanComplete
    \/ DialogCancel
    \/ SimplifiedReview
    \/ OnClose

SpecSettings == InitLive /\ [][NextSettings]_vars

(* ---------------- gather_recent_files called on its own ---------------- *)
\* The paths of the walked tree.
GatherPaths ==
    {[parent |-> "d1", name |-> <<"a">>], [parent |-> "d1", name |-> <<"A">>],
     [parent |-> "d1", name |-> <<"a", "_">>], [parent |-> "d2", name |-> <<"a">>]}
\* The clock at the start of the walk: 31 days after the epoch.
GatherNow == 31 * 24 * 3600 * TicksPerSecond
Week == 7 * 24 * 3600 * TicksPerSecond
\* Modified now, exactly a week ago, one tick more than a week ago, 30 days ago.
GatherMTimes == {GatherNow, GatherNow - Week, GatherNow - Week - 1,
                 GatherNow - 30 * 24 * 3600 * TicksPerSecond}
DaysBack == {-1, 0, 7}
Prefixes == {<<>>, <<"A">>, <<"a", "_">>}

InitGather ==
    /\ \E S \in {T \in SUBSET GatherPaths : Cardinality(T) <= MaxFiles} :
         \E files \in [S -> [content : {<<1>>}, mtime : GatherMTimes]],
            bad \in {U \in SUBSET S : Cardinality(U) <= MaxUnstatable},
            gone \in {B \in SUBSET (GatherPaths \ S) : Cardinality(B) <= MaxBroken},
            delay \in {0, 1} :
              env = [files |-> files, unreadable |-> {}, nt |-> FALSE, trash |-> FALSE,
                     locked |-> {}, trash_missing_raises |-> FALSE,
                     now |-> GatherNow, unstatable |-> bad, broken |-> gone,
                     walk_delay |-> delay, settings |-> <<>>]
    /\ \E folder \in Dirs, days_back \in DaysBack, name_prefix \in Prefixes,
          include_subfolders \in BOOLEAN :
         gcall = [NoGather EXCEPT !.op = "pending", !.folder = folder,
                                  !.days_back = days_back, !.name_prefix = name_prefix,
                                  !.include_subfolders = include_subfolders]
    /\ entries = <<>>
    /\ args = NoArgs
    /\ outcome = NoOutcome
    /\ again = NoOutcome
    /\ pc = "input"
    /\ dcall = NoCall
    /\ dlog = NoLog
    /\ ui = NewUI
    /\ worker = NoWorker
    /\ dlg = NoDialog

\* The call: entries, skipped = gather_recent_files(folder, days_back, ...)
Gather ==
    /\ pc = "input"
    /\ gcall.op = "pending"
    /\ LET r == GatherRecentFiles(gcall.folder, gcall.days_back, gcall.name_prefix,
                                  gcall.include_subfolders, env)
       IN gcall' = [gcall EXCEPT !.op = "gather_recent_files", !.entries = r.entries,
                                 !.skipped = r.skipped]
    /\ pc' = "done"
    /\ UNCHANGED <<env, entries, args, outcome, again, dcall, dlog, ui, worker, dlg>>

NextGather == Gather

SpecGather == InitGather /\ [][NextGather]_vars

(* ------------- find_duplicate_groups on sub-second mtimes -------------- *)
\* 1.0 s, the next tick within the same second, and 2.0 s.
FineMTimes == {TicksPerSecond, TicksPerSecond + 1, 2 * TicksPerSecond}

InitFine ==
    /\ \E S \in {T \in SUBSET UIPaths : Cardinality(T) <= MaxFiles} :
         \E files \in [S -> [content : {<<1>>, <<2>>}, mtime : FineMTimes]] :
            env = [files |-> files, unreadable |-> {}, nt |-> FALSE, trash |-> FALSE,
                   locked |-> {}, trash_missing_raises |-> FALSE,
                   now |-> 2 * TicksPerSecond, unstatable |-> {},
                   broken |-> {}, walk_delay |-> 0, settings |-> <<>>]
    /\ entries = MakeEntries(env)
    /\ args \in Args
    /\ outcome = NoOutcome
    /\ again = NoOutcome
    /\ gcall = NoGather
    /\ pc = "input"
    /\ dcall = NoCall
    /\ dlog = NoLog
    /\ ui = NewUI
    /\ worker = NoWorker
    /\ dlg = NoDialog

SpecFine == InitFine /\ [][NextGroup]_vars

(* ---------------- find_duplicate_groups called twice ------------------- *)
\* The same records, flags and cap, on an unchanged disk (the same files
\* exist, with the same content, and the same files are readable).
InitAgain ==
    /\ InitGroup
    /\ DOMAIN env.files \subseteq UIPaths

GroupAgain ==
    /\ pc = "done"
    /\ again' = SecondCall(outcome, entries, args, env)
    /\ pc' = "again"
    /\ UNCHANGED <<env, entries, args, outcome, gcall, dcall, dlog, ui, worker, dlg>>

NextAgain ==
    \/ Group
    \/ GroupAgain

SpecAgain == InitAgain /\ [][NextAgain]_vars

(* ------- find_duplicate_groups on a list that repeats a record --------- *)
\* The entries of the disk, followed by up to MaxRepeat of them once more.
InitOccur ==
    /\ \E S \in {T \in SUBSET UIPaths : Cardinality(T) <= MaxFiles}, nt \in BOOLEAN :
         \E files \in [S -> [content : {<<1>>, <<2>>}, mtime : MTimes]],
            bad \in {U \in SUBSET S : Cardinality(U) <= MaxUnreadable} :
              env = [files |-> files, unreadable |-> bad, nt |-> nt, trash |-> FALSE,
                     locked |-> {}, trash_missing_raises |-> FALSE,
                     now |-> Now, unstatable |-> {},
                     broken |-> {}, walk_delay |-> 0, settings |-> <<>>]
    /\ \E n \in 0..MaxRepeat :
         /\ n <= Len(MakeEntries(env))
         /\ entries = MakeEntries(env) \o SubSeq(MakeEntries(env), 1, n)
    /\ args \in Args
    /\ outcome = NoOutcome
    /\ again = NoOutcome
    /\ gcall = NoGather
    /\ pc = "input"
    /\ dcall = NoCall
    /\ dlog = NoLog
    /\ ui = NewUI
    /\ worker = NoWorker
    /\ dlg = NoDialog

SpecOccur == InitOccur /\ [][NextGroup]_vars

(* ------- find_duplicate_groups with Hash + Size, then Hash alone ------- *)
InitAccuracy ==
    /\ InitGroup
    /\ args.use_hash /\ args.use_size /\ ~args.use_name /\ ~args.use_mtime

GroupHashAlone ==
    /\ pc = "done"
    /\ again' = HashAlone(entries, args, env)
    /\ pc' = "hash_alone"
    /\ UNCHANGED <<env, entries, args, outcome, gcall, dcall, dlog, ui, worker, dlg>>

NextAccuracy ==
    \/ Group
    \/ GroupHashAlone

SpecAccuracy == InitAccuracy /\ [][NextAccuracy]_vars

(* ===================== properties of the grouper ======================= *)
Returned == pc = "done"
G == outcome.groups
E == Range(entries)
Members(i) == Range(G[i].v)
\* The sets of entries of the returned groups.
Memberships == {Members(i) : i \in 1..Len(G)}
Together(e1, e2) == \E i \in 1..Len(G) : e1 \in Members(i) /\ e2 \in Members(i)
Ungrouped(e) == \A i \in 1..Len(G) : e \notin Members(i)
ContentOf(e) == env.files[e.path].content
Readable(e) == e.path \notin env.unreadable
BeyondCap(e) == args.hash_max_bytes /= NoCap /\ e.size > args.hash_max_bytes
Lower(c) == IF c = "A" THEN "a" ELSE c
ComparedName(e) ==
    IF env.nt THEN [i \in 1..Len(e.path.name) |-> Lower(e.path.name[i])] ELSE e.path.name
SameName(e1, e2) == ComparedName(e1) = ComparedName(e2)
HashOnly == args.use_hash /\ ~args.use_size /\ ~args.use_name /\ ~args.use_mtime
HashAndSize == args.use_hash /\ args.use_size /\ ~args.use_name /\ ~args.use_mtime
NoCriteria == ~args.use_hash /\ ~args.use_size /\ ~args.use_name /\ ~args.use_mtime
\* The over-cap records that share their size with another record.
SkippedRecords == {e \in E : BeyondCap(e) /\ \E f \in E : f /= e /\ f.size = e.size}

\* C1: every group returned by find_duplicate_groups has at least 2 members,
\* for every input, criteria combination and cap.
C1_GroupsHaveTwoMembers ==
    Returned => \A i \in 1..Len(G) : Len(G[i].v) >= 2 /\ Cardinality(Members(i)) >= 2

\* C1 witness: a call that returned a group and left another record, whose key
\* was a singleton, out of the result.
C1_Witness ==
    /\ Returned /\ Len(G) >= 1
    /\ \E e \in E : Ungrouped(e) /\ (args.use_size \/ args.use_name \/ args.use_mtime)

\* C2 as stated: with hashing enabled any two files of identical content are in
\* the same group, and no file of different content is in that group.
C2_SameContentAlwaysTogether ==
    (Returned /\ args.use_hash) =>
        \A A \in E, B \in E :
            (A /= B /\ ContentOf(A) = ContentOf(B)) =>
                /\ Together(A, B)
                /\ \A C \in E : ContentOf(C) /= ContentOf(A) => ~(Together(A, C) /\ Together(B, C))

\* C2 amended: with hashing enabled, two readable files of identical content
\* that do not exceed the hash cap and agree on every other enabled criterion
\* (name, mtime) are in the same group, and no file of different content is a
\* member of that group.
C2_SameContentTogether ==
    (Returned /\ args.use_hash) =>
        \A A \in E, B \in E :
            ( /\ A /= B /\ ContentOf(A) = ContentOf(B)
              /\ Readable(A) /\ Readable(B) /\ ~BeyondCap(A)
              /\ (args.use_name => SameName(A, B))
              /\ (args.use_mtime => A.mtime = B.mtime) ) =>
                /\ Together(A, B)
                /\ \A C \in E : ContentOf(C) /= ContentOf(A) => ~Together(A, C)

\* C2 witness: the hash-only scenario of the test, two equal files grouped and a
\* third file of the same size but different content left out.
C2_Witness ==
    /\ Returned /\ HashOnly /\ Len(G) = 1
    /\ \E A \in E, B \in E, C \in E :
          /\ A /= B /\ ContentOf(A) = ContentOf(B)
          /\ ContentOf(C) /= ContentOf(A) /\ C.size = A.size /\ Readable(C)
          /\ Members(1) = {A, B}

\* C3 as stated: any two members of a group agree on every enabled criterion,
\* the content digest included when hash is enabled and neither exceeds the cap.
C3_MembersAgreeOnCriteria ==
    Returned =>
        \A i \in 1..Len(G) : \A e1 \in Members(i), e2 \in Members(i) :
            /\ args.use_size => e1.size = e2.size
            /\ args.use_name => SameName(e1, e2)
            /\ args.use_mtime => e1.mtime = e2.mtime
            /\ (args.use_hash /\ ~BeyondCap(e1) /\ ~BeyondCap(e2)) =>
                  ContentOf(e1) = ContentOf(e2)

\* The reference grouper of C4: no size buckets, the hash component computed
\* for every within-cap record whenever use_hash is enabled.
ReferenceGroups ==
    OnlyDuplicates(ProcessFiles(NoOutcome, entries, 1, args.use_hash, args, env).groups)

\* C4 as stated: size bucketing is a pure optimization, the returned group
\* memberships equal those of the reference grouper.
C4_BucketingIsOptimization ==
    Returned =>
        Memberships = {Range(ReferenceGroups[i].v) : i \in 1..Len(ReferenceGroups)}

\* C9: with no criterion enabled the result is an empty mapping and a skipped
\* count of 0, for any input and cap, and no file is read.
C9_NoCriteriaEmptyOutcome ==
    (Returned /\ NoCriteria) =>
        /\ outcome.groups = <<>>
        /\ outcome.hash_skipped = 0
        /\ outcome.hashed = <<>>

\* C9 witness: a call without criteria, with a cap, on an input that holds two
\* files of identical content that exceed the cap.
C9_Witness ==
    /\ Returned /\ NoCriteria /\ args.hash_max_bytes /= NoCap
    /\ \E A \in E, B \in E : A /= B /\ ContentOf(A) = ContentOf(B) /\ BeyondCap(A)

\* C10: hash-cap boundary.  With hash the only criterion and a cap, no over-cap
\* record is in a group and hash_skipped counts the over-cap records that share
\* their size with another record; with size also enabled those records are
\* grouped together by size and the count is the same.
C10_HashCapBoundary ==
    (Returned /\ args.hash_max_bytes /= NoCap) =>
        /\ HashOnly =>
              /\ \A e \in E : BeyondCap(e) => Ungrouped(e)
              /\ outcome.hash_skipped = Cardinality(SkippedRecords)
              /\ FindDuplicateGroups(entries, [args EXCEPT !.use_size = TRUE], env).hash_skipped
                    = outcome.hash_skipped
        /\ HashAndSize =>
              /\ \A e \in SkippedRecords, f \in SkippedRecords :
                    e.size = f.size => Together(e, f)
              /\ outcome.hash_skipped = Cardinality(SkippedRecords)

\* C10 witness: two same-size files of different content, both over the cap,
\* hash only: no group and a count of 2, while hash + size groups the two.
C10_Witness ==
    /\ Returned /\ HashOnly /\ args.hash_max_bytes /= NoCap
    /\ \E A \in E, B \in E :
          /\ A /= B /\ A.size = B.size /\ ContentOf(A) /= ContentOf(B) /\ BeyondCap(A)
          /\ E = {A, B}
    /\ outcome.groups = <<>> /\ outcome.hash_skipped = 2
    /\ Len(FindDuplicateGroups(entries, [args EXCEPT !.use_size = TRUE], env).groups) = 1

SizeOnly == ~args.use_hash /\ args.use_size /\ ~args.use_name /\ ~args.use_mtime

\* C11: with hashing disabled and size the only criterion, two records are in
\* the same group if and only if their sizes are equal, whatever their content;
\* a record whose size is unique in the input is in no group.
C11_SizeOnlyGroupsBySize ==
    (Returned /\ SizeOnly) =>
        /\ \A e1 \in E, e2 \in E : e1 /= e2 => (Together(e1, e2) <=> e1.size = e2.size)
        /\ \A e \in E : (\A f \in E : f /= e => f.size /= e.size) => Ungrouped(e)

\* C11 witness: size only, two files of equal size and different content in one
\* group, a third file of another size in none.
C11_Witness ==
    /\ Returned /\ SizeOnly
    /\ \E A \in E, B \in E, C \in E :
          /\ A /= B /\ A.size = B.size /\ ContentOf(A) /= ContentOf(B)
          /\ C.size /= A.size
          /\ Together(A, B) /\ Ungrouped(C)

\* The groups of a return value as a set: key, members, number of members.
GroupSet(o) ==
    {[k |-> o.groups[i].k, members |-> Range(o.groups[i].v), n |-> Len(o.groups[i].v)] :
        i \in 1..Len(o.groups)}

C15_MtimeWholeSeconds ==
    (Returned /\ args.use_mtime) =>
        \A e1 \in E, e2 \in E :
            ( /\ e1 /= e2
              /\ WholeSeconds(e1.mtime) = WholeSeconds(e2.mtime)
              /\ args.use_size => e1.size = e2.size
              /\ args.use_name => SameName(e1, e2)
              /\ args.use_hash => /\ ContentOf(e1) = ContentOf(e2)
                                  /\ Readable(e1) /\ Readable(e2) ) =>
                Together(e1, e2)

OtherCriterion == args.use_size \/ args.use_name \/ args.use_mtime
\* Equality of the size, name and mtime components that are enabled.
SameOther(e1, e2) ==
    /\ args.use_size => e1.size = e2.size
    /\ args.use_name => SameName(e1, e2)
    /\ args.use_mtime => e1.mtime = e2.mtime
\* The records whose key has no hash component although hashing is enabled:
\* over the cap, or alone with their size.
Unhashed(e) == e \in SkippedRecords \/ ~\E f \in E : f /= e /\ f.size = e.size
\* The key made of the enabled criteria other than hash.
KeyWithoutHash(e) ==
    (IF args.use_size THEN << <<"size", e.size>> >> ELSE <<>>)
    \o (IF args.use_name THEN << <<"name", ComparedName(e)>> >> ELSE <<>>)
    \o (IF args.use_mtime THEN << <<"mtime", e.mtime>> >> ELSE <<>>)

\* C16: with hash and another criterion enabled, a record whose hashing is
\* skipped because its size exceeds the cap is counted once in hash_skipped,
\* is grouped exactly with the other records whose key, without a hash
\* component, equals its size/name/mtime key, and the key of its group has no
\* hash component.
C16_OverCapKeptOnOtherCriteria ==
    (Returned /\ args.use_hash /\ OtherCriterion) =>
        /\ outcome.hash_skipped = Cardinality(SkippedRecords)
        /\ \A e \in SkippedRecords :
              /\ \A f \in E \ {e} : Together(e, f) <=> (Unhashed(f) /\ SameOther(e, f))
              /\ \A i \in 1..Len(G) : e \in Members(i) => G[i].k = KeyWithoutHash(e)

\* An over-cap record is in a returned group with hash and another criterion on.
C16_Witness ==
    /\ Returned /\ args.use_hash /\ OtherCriterion
    /\ outcome.hash_skipped >= 1
    /\ \E e \in SkippedRecords : ~Ungrouped(e)

\* The records whose digest is computed: hashing enabled, another record of the
\* same size exists, and the size is within the cap.
DigestComputed(e) ==
    /\ args.use_hash
    /\ \E f \in E : f /= e /\ f.size = e.size
    /\ ~BeyondCap(e)
\* The records whose digest computation fails with an I/O error.
DigestFailed == {e \in E : DigestComputed(e) /\ ~Readable(e)}
Hashed(e) == DigestComputed(e) /\ Readable(e)
\* A record that has a key: not failed, and at least one component.
Keyed(e) == e \notin DigestFailed /\ (Hashed(e) \/ OtherCriterion)
SameKey(e1, e2) ==
    /\ Hashed(e1) = Hashed(e2)
    /\ Hashed(e1) => ContentOf(e1) = ContentOf(e2)
    /\ SameOther(e1, e2)

\* C17: when the digest of a record fails with an I/O error the call still
\* returns, the record is in no returned group whatever other criteria are
\* enabled, it is not counted in hash_skipped, and two other records are
\* grouped together exactly when their own keys are equal, as if the failed
\* record had no key.
C17_DigestFailureDropsRecord ==
    (Returned /\ DigestFailed /= {}) =>
        /\ \A e \in DigestFailed : Ungrouped(e)
        /\ outcome.hash_skipped = Cardinality(SkippedRecords)
        /\ \A f \in E \ DigestFailed, g \in E \ DigestFailed :
              f /= g => (Together(f, g) <=> (Keyed(f) /\ Keyed(g) /\ SameKey(f, g)))

\* A digest fails while size is also enabled, a record of the same size is
\* read, and the call has returned.
C17_Witness ==
    /\ Returned /\ args.use_hash /\ args.use_size
    /\ \E e \in DigestFailed : \E f \in E : f /= e /\ f.size = e.size /\ Hashed(f)

\* The sets of entries of the groups of a return value.
MembershipsOf(o) == {Range(o.groups[i].v) : i \in 1..Len(o.groups)}

\* C20: with no hash cap and no read failure, the group memberships returned
\* with {hash, size} enabled equal those returned with only {hash} enabled on
\* the same records.
C20_HashSizeSameAsHash ==
    (pc = "hash_alone" /\ args.hash_max_bytes = NoCap /\ env.unreadable = {}) =>
        MembershipsOf(outcome) = MembershipsOf(again)

\* Both calls returned a group, and a record of the same size as the grouped
\* ones, with another content, is left out.
C20_Witness ==
    /\ pc = "hash_alone" /\ args.hash_max_bytes = NoCap /\ env.unreadable = {}
    /\ outcome.groups /= <<>> /\ again.groups /= <<>>
    /\ \E e \in E, f \in E :
          /\ e.size = f.size /\ ContentOf(e) /= ContentOf(f)
          /\ \E m \in MembershipsOf(again) : e \in m /\ f \notin m

\* The number of occurrences of a record in a list, and in all groups.
TimesIn(list, e) == Cardinality({i \in 1..Len(list) : list[i] = e})
RECURSIVE GroupedFrom(_, _)
GroupedFrom(i, e) ==
    IF i > Len(G) THEN 0 ELSE TimesIn(G[i].v, e) + GroupedFrom(i + 1, e)
RECURSIVE TotalGroupedFrom(_)
TotalGroupedFrom(i) == IF i > Len(G) THEN 0 ELSE Len(G[i].v) + TotalGroupedFrom(i + 1)

\* C24: the returned groups hold input records only, no record is in two
\* groups, a record is grouped at most as often as it occurs in the input,
\* and the groups together hold at most as many records as the input.
C24_GroupsDisjoint ==
    Returned =>
        /\ \A i \in 1..Len(G) : Members(i) \subseteq E
        /\ \A i \in 1..Len(G), j \in 1..Len(G) : i /= j => Members(i) \cap Members(j) = {}
        /\ \A e \in E : GroupedFrom(1, e) <= TimesIn(entries, e)
        /\ TotalGroupedFrom(1) <= Len(entries)

\* Two groups are returned, and a record that occurs twice in the input is
\* twice in its group.
C24_Witness ==
    /\ Returned /\ Len(G) >= 2
    /\ \E e \in E : TimesIn(entries, e) = 2 /\ GroupedFrom(1, e) = 2

(* ================= properties of gather_recent_files =================== *)
Gathered == pc = "done" /\ gcall.op = "gather_recent_files"
GatheredPaths == {gcall.entries[i].path : i \in 1..Len(gcall.entries)}
\* The listed entries under the folder that the walk reaches.
InScope(p) ==
    \/ p.parent = gcall.folder
    \/ gcall.folder = "d1" /\ gcall.include_subfolders /\ p.parent = "d2"
LowerName(p) == [i \in 1..Len(p.name) |-> Lower(p.name[i])]
LowerPrefix == [i \in 1..Len(gcall.name_prefix) |-> Lower(gcall.name_prefix[i])]
PassesPrefix(p) ==
    /\ Len(LowerPrefix) <= Len(p.name)
    /\ \A i \in 1..Len(LowerPrefix) : LowerName(p)[i] = LowerPrefix[i]
\* The regular files whose recency the walk decides.
Examined == {p \in DOMAIN env.files : InScope(p) /\ PassesPrefix(p) /\ p \notin env.unstatable}
Recent(p) ==
    \/ gcall.days_back <= 0
    \/ env.now - env.files[p].mtime <= gcall.days_back * 86400 * TicksPerSecond

\* C13: gather_recent_files includes a regular file exactly when
\* days_back <= 0 or now - mtime <= days_back * 86400, now being the one clock
\* value taken before the walk, however long the walk takes.
C13_RecencyFilter ==
    Gathered => \A p \in Examined : p \in GatheredPaths <=> Recent(p)

\* C13 witness: days_back = 7 on a walk during which the clock advances: a file
\* modified now and a file exactly at the threshold are included, a file 30
\* days old is excluded.
C13_Witness ==
    /\ Gathered /\ gcall.days_back = 7 /\ env.walk_delay > 0
    /\ \E p \in Examined, q \in Examined, r \in Examined :
          /\ env.files[p].mtime = env.now /\ p \in GatheredPaths
          /\ env.now - env.files[q].mtime = 7 * 86400 * TicksPerSecond /\ q \in GatheredPaths
          /\ env.now - env.files[r].mtime = 30 * 86400 * TicksPerSecond
          /\ r \notin GatheredPaths
          /\ gcall.entries[Len(gcall.entries)].path = q

\* The entries whose examination failed: a broken link or vanished file, and a
\* file whose stat raised.
FailedEntries ==
    {p \in env.broken : InScope(p)}
    \cup {p \in DOMAIN env.files : InScope(p) /\ PassesPrefix(p) /\ p \in env.unstatable}

\* C14 as stated: a per-entry I/O error never aborts the walk: the failing
\* entry is left out, skipped is incremented by one for it, every remaining
\* entry is still examined, and the returned skipped count is the number of
\* entries whose examination failed.
C14_EntryErrorsCounted ==
    Gathered =>
        /\ GatheredPaths \cap FailedEntries = {}
        /\ \A p \in Examined : Recent(p) => p \in GatheredPaths
        /\ gcall.skipped = Cardinality(FailedEntries)

\* The regular files that pass every filter but the prefix filter.
PassOtherFilters ==
    {p \in DOMAIN env.files : InScope(p) /\ p \notin env.unstatable /\ Recent(p)}

\* C21: a file that passes the other filters is returned exactly when the
\* case-folded base name starts with the case-folded prefix; files of the same
\* name in different directories are treated alike, nothing else is returned,
\* and an empty prefix filters nothing.
C21_PrefixOnBaseName ==
    Gathered =>
        /\ \A p \in PassOtherFilters : p \in GatheredPaths <=> PassesPrefix(p)
        /\ GatheredPaths \subseteq PassOtherFilters
        /\ gcall.name_prefix = <<>> => GatheredPaths = PassOtherFilters
        /\ \A p \in PassOtherFilters, q \in PassOtherFilters :
              p.name = q.name => (p \in GatheredPaths <=> q \in GatheredPaths)

\* The prefix "A" returns the file "a" of the folder and the file "a" of the
\* subfolder and leaves out nothing of that name; the prefix "a_" leaves "a" out.
C21_Witness ==
    /\ Gathered
    /\ \/ /\ gcall.name_prefix = <<"A">>
          /\ \E p \in GatheredPaths, q \in GatheredPaths :
                p.name = <<"a">> /\ q.name = <<"a">> /\ p.parent /= q.parent
       \/ /\ gcall.name_prefix = <<"a", "_">>
          /\ \E p \in PassOtherFilters, q \in GatheredPaths :
                p.name = <<"a">> /\ p \notin GatheredPaths /\ q.name = <<"a", "_">>

\* The regular files that pass the prefix, stat and recency filters.
PassFilters ==
    {p \in DOMAIN env.files : PassesPrefix(p) /\ p \notin env.unstatable /\ Recent(p)}
\* The files directly in the root, and the files below it at any depth.
DirectChildren == {p \in DOMAIN env.files : p.parent = gcall.folder}
Descendants ==
    DirectChildren \cup {p \in DOMAIN env.files : gcall.folder = "d1" /\ p.parent = "d2"}

\* C22: every file under the root that passes the filters is returned exactly
\* once and no directory is returned: the direct children only when
\* include_subfolders is false, the files of every depth when it is true.
C22_EachFileOnce ==
    Gathered =>
        /\ \A i \in 1..Len(gcall.entries), j \in 1..Len(gcall.entries) :
              i /= j => gcall.entries[i].path /= gcall.entries[j].path
        /\ SubDir \notin GatheredPaths
        /\ GatheredPaths \subseteq DOMAIN env.files
        /\ GatheredPaths =
              PassFilters \cap (IF gcall.include_subfolders THEN Descendants
                                ELSE DirectChildren)

\* A recursive walk of d1 over a subfolder that holds a file: a file of each
\* depth is returned, and the subfolder itself is not.
C22_Witness ==
    /\ Gathered /\ gcall.folder = "d1" /\ gcall.include_subfolders
    /\ \E p \in GatheredPaths, q \in GatheredPaths : p.parent = "d1" /\ q.parent = "d2"
    /\ Len(gcall.entries) = Cardinality(GatheredPaths)
    /\ SubDir \notin GatheredPaths

(* ===================== properties of delete_files ====================== *)
Deleted == pc = "done" /\ dcall.op = "delete_files"
\* The paths of the list that did not exist when the call started.
MissingAtCall == {p \in Range(dcall.paths) : p \notin dcall.before}
ErrorsFor(p) == {j \in 1..Len(dlog.errors) : dlog.errors[j].path = p}
\* Occurrences of p in the list, and attempts made on p.
Occurrences(p) == {i \in 1..Len(dcall.paths) : dcall.paths[i] = p}
Attempts(p) == {i \in 1..Len(dlog.calls) : dlog.calls[i].path = p}
FailedAttempts == {i \in 1..Len(dlog.calls) : dlog.calls[i].raised}
RECURSIVE FailedPathsFrom(_)
\* The paths of the failed attempts, in order, from attempt i on.
FailedPathsFrom(i) ==
    IF i > Len(dlog.calls) THEN <<>>
    ELSE (IF dlog.calls[i].raised THEN <<dlog.calls[i].path>> ELSE <<>>)
         \o FailedPathsFrom(i + 1)

\* C6 as stated: a path that no longer exists at deletion time is a non-error
\* with either mechanism: no on_error call for it, and the other existing
\* (removable) paths of the list are still deleted.
C6_MissingPathIsNoError ==
    Deleted =>
        /\ \A p \in MissingAtCall : ErrorsFor(p) = {}
        /\ MissingAtCall /= {} =>
              \A q \in Range(dcall.paths) :
                  (q \in dcall.before /\ q \notin env.locked) => q \notin DOMAIN env.files

\* C7: a failure on one path never aborts the batch: every path of the input is
\* attempted exactly once, in order, whatever failed before it; with a callback
\* supplied each failed attempt produces exactly one on_error call, naming that
\* path and the cause, and no on_error call is made for a successful attempt.
C7_FailureNeverAbortsBatch ==
    Deleted =>
        /\ Len(dlog.calls) = Len(dcall.paths)
        /\ \A i \in 1..Len(dcall.paths) : dlog.calls[i].path = dcall.paths[i]
        /\ dcall.on_error =>
              /\ [j \in 1..Len(dlog.errors) |-> dlog.errors[j].path] = FailedPathsFrom(1)
              /\ \A j \in 1..Len(dlog.errors) :
                    dlog.errors[j].cause \in {"PermissionError", "FileNotFoundError"}
        /\ ~dcall.on_error => dlog.errors = <<>>

\* C7 witness: a list of two paths whose first removal fails and whose second
\* succeeds, with a callback: one on_error call, the second file gone.
C7_Witness ==
    /\ Deleted /\ dcall.on_error /\ Len(dcall.paths) = 2
    /\ dlog.calls[1].raised /\ ~dlog.calls[2].raised
    /\ Len(dlog.errors) = 1 /\ dlog.errors[1].path = dcall.paths[1]
    /\ dcall.paths[2] \in dcall.before /\ dcall.paths[2] \notin DOMAIN env.files

\* C8: with send2trash importable every path is passed to send2trash and unlink
\* is never called, even for a path whose trashing fails; with send2trash not
\* importable every path is permanently unlinked.
C8_TrashPreferred ==
    Deleted =>
        /\ Len(dlog.calls) = Len(dcall.paths)
        /\ \A i \in 1..Len(dlog.calls) :
              /\ dlog.calls[i].path = dcall.paths[i]
              /\ dlog.calls[i].fn = IF env.trash THEN "send2trash" ELSE "unlink"

\* C8 witness: trash available, two paths, the trashing of one of them failed.
C8_Witness ==
    /\ Deleted /\ env.trash /\ Len(dcall.paths) = 2 /\ FailedAttempts /= {}
    /\ \A i \in 1..Len(dlog.calls) : dlog.calls[i].fn = "send2trash"

(* ================= properties of the delete operations ================= *)
\* The window's delete operations that call delete_files per group.
DeleteOps == {"_delete", "_simplified_confirm_and_delete"}
DeleteList == Range(dcall.paths)
GroupPaths(g) == {g.v[i].path : i \in 1..Len(g.v)}
KeptOf(g) == GroupPaths(g) \ DeleteList
IsNewestIn(p, g) ==
    \E i \in 1..Len(g.v) :
        g.v[i].path = p /\ \A j \in 1..Len(g.v) : g.v[j].mtime <= g.v[i].mtime

\* C5: when _simplified_confirm_and_delete or _delete calls delete_files, the
\* delete list holds all but exactly one member of every duplicate group of
\* the last scan: one file per group is kept, no kept file is in the delete
\* list, and in simplified mode the kept file has the greatest mtime of its
\* group.
C5_DeleteListKeepsOnePerGroup ==
    dcall.op \in DeleteOps =>
        /\ \A i \in 1..Len(dcall.groups) : Cardinality(KeptOf(dcall.groups[i])) = 1
        /\ Range(dcall.keep) \cap DeleteList = {}
        /\ dcall.op = "_simplified_confirm_and_delete" =>
              \A i \in 1..Len(dcall.groups) :
                  \A p \in KeptOf(dcall.groups[i]) : IsNewestIn(p, dcall.groups[i])

(* ===================== properties of the scan request =================== *)
NoCriterionSelected(u) == ~(u.use_hash \/ u.use_size \/ u.use_name \/ u.use_mtime)
\* The scan settings of the window hold a configuration error.
ConfigError == ~IsDir(ui.folder) \/ NoCriterionSelected(ui)
\* The results of the last scan as the window holds and shows them.
Results(u) ==
    [duplicates |-> u.duplicates, tree |-> u.tree,
     last_hash_skipped |-> u.last_hash_skipped, last_scan_skipped |-> u.last_scan_skipped,
     last_folder |-> u.last_folder, last_days |-> u.last_days,
     last_scan_seconds |-> u.last_scan_seconds, delete_btn |-> u.delete_btn]
ErrorTitles == {"Invalid folder", "No criteria selected"}

\* C18: a click on Scan while no criterion is selected, or while the folder is
\* no directory, is rejected with an error dialog: no scan thread exists
\* afterwards (so nothing is collected or grouped), _scanning is false and the
\* previous results are unchanged.
C18_ConfigErrorRejected ==
    [][(ScanClick /\ ConfigError) =>
          /\ dlg'.kind \in ErrorTitles
          /\ worker' = NoWorker
          /\ ~ui'.scanning
          /\ Results(ui') = Results(ui)]_vars

\* A scan was rejected for want of a criterion while the window holds the
\* groups of an earlier scan.
C18_Witness ==
    /\ dlg.kind = "No criteria selected"
    /\ ui.duplicates /= <<>>
    /\ worker = NoWorker /\ ~ui.scanning

\* The settings _scan recorded when it started the running scan.
Started == ui.last_scan_settings[1]
\* The hash cap of those settings (the cap fields themselves are not edited).
StartedCap ==
    IF Started.use_hash /\ ui.hash_limit_enabled
    THEN ui.hash_max_mb * 1024 * 1024 ELSE NoCap

\* C19 as stated: the name prefix and recursion flag the scan thread passes to
\* gather_recent_files, and the criteria flags and hash cap it passes to
\* find_duplicate_groups, are those recorded in _last_scan_settings when
\* _scan started the scan, whatever was clicked meanwhile.
C19_WorkerUsesStartValues ==
    [][/\ WorkerGather =>
            /\ gcall'.name_prefix = Started.prefix
            /\ gcall'.include_subfolders = Started.include_subfolders
       /\ WorkerGroup =>
            /\ args'.use_hash = Started.use_hash
            /\ args'.use_size = Started.use_size
            /\ args'.use_name = Started.use_name
            /\ args'.use_mtime = Started.use_mtime
            /\ args'.hash_max_bytes = StartedCap]_vars

(* ================== properties of the delete handlers ================== *)
\* The dialogs whose delete choice lets a handler go on to delete_files.
ConfirmKinds == {"confirm", "confirm_simplified", "confirm_selected"}

\* C23: files are renamed or deleted, and delete_files is called, only by the
\* delete choice of an open confirmation dialog and for the list that dialog
\* was opened for; cancelling, reviewing or closing a dialog changes no file
\* and calls nothing; and when _delete_selected deletes every copy of a
\* group, the full-group dialog was confirmed before.
C23_DeleteOnlyAfterConfirmation ==
    [][/\ (env'.files /= env.files \/ dcall'.op /= "none") =>
            /\ dlg.kind \in ConfirmKinds
            /\ ConfirmDelete
            /\ dcall'.paths = dlg.to_delete
       /\ (DialogCancel \/ SimplifiedReview) =>
            /\ env' = env
            /\ dcall'.op = "none"
       /\ ( /\ dcall'.op = "_delete_selected"
            /\ \E i \in 1..Len(dlg.groups) :
                  FilePaths(dlg.groups[i]) \subseteq Range(dcall'.paths) ) =>
            dlg.full_confirmed]_vars

\* _delete_selected has deleted every copy of a group.
C23_Witness ==
    /\ dcall.op = "_delete_selected"
    /\ \E i \in 1..Len(dcall.groups) :
          FilePaths(dcall.groups[i]) \subseteq Range(dcall.paths)
    /\ Range(dcall.paths) \cap DOMAIN env.files = {}
    /\ dcall.before /= DOMAIN env.files

(* ====================== properties of the scan worker =================== *)
Alive(w) == w.stage /= "idle"

\* C25: a worker is started only while none exists and _scanning is false;
\* _scan called while _scanning is true (the rescan at the end of a delete
\* handler) starts nothing and changes nothing; _scanning is true as long as
\* a worker exists and becomes false only when its completion is handled.
C25_OneWorker ==
    [][/\ (worker'.stage = "started" /\ worker' /= worker) =>
            (~Alive(worker) /\ ~ui.scanning /\ ui'.scanning)
       /\ (ConfirmDelete /\ ui.scanning) => (ui' = ui /\ worker' = worker)
       /\ Alive(worker) => ui.scanning
       /\ Alive(worker') => ui'.scanning
       /\ (ui.scanning /\ ~ui'.scanning) =>
            (OnScanComplete /\ worker.stage = "posted" /\ ~Alive(worker'))]_vars

\* A delete handler has just deleted files and called _scan while the worker
\* of a running scan was past its start: the worker is still that one.
C25_Witness ==
    /\ dcall.op /= "none"
    /\ dcall.before /= DOMAIN env.files
    /\ ui.scanning
    /\ worker.stage \in {"gathered", "posted"}

\* C26 as stated: while _scanning is true the Delete button and the Delete
\* selected action are disabled and the tree is empty, whatever is clicked
\* meanwhile, and no delete handler reaches delete_files.
C26_NoDeleteWhileScanning ==
    [][/\ ui.scanning =>
            (ui.delete_btn = "disabled" /\ ~ui.actions_enabled /\ ui.tree = {})
       /\ ui'.scanning =>
            (ui'.delete_btn = "disabled" /\ ~ui'.actions_enabled /\ ui'.tree = {})
       /\ dcall'.op /= "none" => ~ui.scanning]_vars

\* C27: while the window stays open, every started scan is followed by a
\* state in which _scanning is false and the Scan button is enabled, whether
\* the worker returns or raises.
C27_ScanEventuallyFinishes ==
    Alive(worker) ~> (~ui.scanning /\ ui.scan_btn = "normal" /\ ~Alive(worker))

\* A scan that was started has ended through the failure path: the Scan
\* button is back and no elapsed time was recorded.
C27_Witness ==
    /\ ~ui.scanning /\ ui.scan_btn = "normal" /\ ~Alive(worker)
    /\ ui.last_scan_mode /= <<>>
    /\ ui.last_scan_seconds = <<>>

\* C28: once _on_close has run, a scan thread that gets to its end schedules
\* no callback (the worker is gone without a queued completion), and from
\* then on duplicates, the last-scan fields and the tree stay as they are, no
\* dialog opens, no file changes and delete_files is not called.
C28_NoEffectAfterClose ==
    [][ui.closing =>
          /\ ui'.closing
          /\ (/\ worker.stage \in {"started", "gathered"}
              /\ worker'.stage \notin {"started", "gathered"}) => worker' = NoWorker
          /\ worker'.stage \notin {"posted", "failed"} \/ worker'.stage = worker.stage
          /\ ui'.duplicates = ui.duplicates
          /\ ui'.last_folder = ui.last_folder
          /\ ui'.last_days = ui.last_days
          /\ ui'.last_scan_seconds = ui.last_scan_seconds
          /\ ui'.last_hash_skipped = ui.last_hash_skipped
          /\ ui'.last_scan_skipped = ui.last_scan_skipped
          /\ ui'.tree = ui.tree
          /\ ui'.delete_btn = ui.delete_btn
          /\ dlg' = Closed
          /\ env' = env
          /\ dcall'.op = "none"]_vars

\* The thread has just handed its entries to find_duplicate_groups and ended
\* in a closed window that holds the groups of an earlier scan.
C28_Witness ==
    /\ ui.closing
    /\ worker = NoWorker
    /\ args /= NoArgs
    /\ ui.duplicates /= <<>>

\* No two entries of the list are equal under case folding.
FoldedOnce(history) ==
    \A i, j \in 1..Len(history) :
        CasefoldStr(history[i]) = CasefoldStr(history[j]) => i = j

\* The distinct folders a settings file lists: its non-empty stripped
\* strings, counted once per case-folded form.
ListedFolders(recents) ==
    {CasefoldStr(StripStr(recents[i])) : i \in 1..Len(recents)} \ {""}

\* C29, as first stated: folder_history holds at most 20 entries at all
\* times, no two equal under case folding, and after _remember_folder(f) the
\* entry for f is first.
C29_HistoryAtMostTwenty ==
    /\ Len(ui.folder_history) <= HistoryLimit
    /\ FoldedOnce(ui.folder_history)
    /\ dcall.op = "_remember_folder" => ui.folder_history[1] = dcall.paths[1]

\* C29, amended: no two entries are ever equal under case folding and none
\* is empty; after _remember_folder(f) the entry for f is first and the list
\* holds at most 20 entries; _load_settings keeps every distinct folder the
\* file lists, however many, and no later step makes a list of more than 20
\* entries longer.
C29_HistoryKept ==
    /\ [](/\ FoldedOnce(ui.folder_history)
          /\ \A i \in 1..Len(ui.folder_history) : ui.folder_history[i] /= ""
          /\ dcall.op = "_remember_folder" =>
                 /\ ui.folder_history /= <<>>
                 /\ ui.folder_history[1] = dcall.paths[1]
                 /\ Len(ui.folder_history) <= HistoryLimit
          /\ dcall.op = "_load_settings" =>
                 Len(ui.folder_history) = Cardinality(ListedFolders(dcall.paths))
          /\ dcall.op = "_clear_folder_history" => ui.folder_history = <<>>)
    /\ [][\/ Len(ui'.folder_history) <= HistoryLimit
          \/ Len(ui'.folder_history) <= Len(ui.folder_history)]_vars

\* A folder is remembered in another case than the list holds it, the list
\* being full: the old entry is replaced, the list stays at 20.
C29_Witness ==
    /\ dcall.op = "_remember_folder"
    /\ dcall.paths = <<"F1">>
    /\ Len(ui.folder_history) = HistoryLimit
    /\ ui.folder_history[1] = "F1"
    /\ \A i \in 2..Len(ui.folder_history) : ui.folder_history[i] \notin {"f1", "F1"}

\* The advanced settings as the Tk variables hold them.
AdvancedValues(u) ==
    [days |-> u.days, use_hash |-> u.use_hash, use_size |-> u.use_size,
     use_name |-> u.use_name, use_mtime |-> u.use_mtime,
     hash_limit_enabled |-> u.hash_limit_enabled, hash_max_mb |-> u.hash_max_mb,
     include_subfolders |-> u.include_subfolders, name_prefix |-> u.name_prefix,
     skip_same_folder_prompt |-> u.skip_same_folder_prompt,
     rename_kept_enabled |-> u.rename_kept_enabled]

\* The advanced settings of a written settings file.
PersistedValues(opts) ==
    [days |-> opts.days, use_hash |-> opts.use_hash, use_size |-> opts.use_size,
     use_name |-> opts.use_name, use_mtime |-> opts.use_mtime,
     hash_limit_enabled |-> opts.hash_limit_enabled, hash_max_mb |-> opts.hash_max_mb,
     include_subfolders |-> opts.include_subfolders, name_prefix |-> opts.name_prefix,
     skip_same_folder_prompt |-> opts.skip_same_folder_prompt,
     rename_kept_enabled |-> opts.rename_kept_enabled]

\* Advanced mode is left / simplified mode goes on / advanced mode is back.
LeavesAdvanced == ui.view_mode = "advanced" /\ ui'.view_mode = "simplified"
StaysSimplified == ui.view_mode = "simplified" /\ ui'.view_mode = "simplified"
ReturnsToAdvanced == ui.view_mode = "simplified" /\ ui'.view_mode = "advanced"
\* _save_settings writes the file from simplified mode.
SavedInSimplified ==
    ui.view_mode = "simplified" /\ env'.settings /= env.settings

\* What simplified mode keeps of the advanced settings, whatever it is worth
\* when the mode is left: nothing changes it, the return to advanced mode
\* puts it back into the variables, and a save writes it to the file.
KeptThroughSimplified ==
    /\ StaysSimplified =>
          /\ ui'.advanced_settings = ui.advanced_settings
          /\ ui.closing \/ AdvancedValues(ui') = SIMPLIFIED_DEFAULTS
    /\ ReturnsToAdvanced =>
          /\ ui.advanced_settings /= <<>>
          /\ AdvancedValues(ui') = ui.advanced_settings[1]
    /\ SavedInSimplified =>
          /\ ui.advanced_settings /= <<>>
          /\ env'.settings /= <<>>
          /\ PersistedValues(env'.settings[1]) = ui.advanced_settings[1]
          /\ env'.settings[1].view_mode = "simplified"

\* C30, as first stated: every advanced setting comes back with the value it
\* had when advanced mode was last left, and that value is what a save in
\* simplified mode writes.
C30_AdvancedValuesRestored ==
    [][/\ LeavesAdvanced => ui'.advanced_settings = <<AdvancedValues(ui)>>
       /\ KeptThroughSimplified]_vars

\* C30, amended: every advanced setting comes back with the value it had
\* when advanced mode was last left, the prefix without its leading and
\* trailing blanks, and those values are what a save in simplified mode
\* writes.
C30_AdvancedSettingsSurvive ==
    [][/\ LeavesAdvanced =>
             ui'.advanced_settings =
                 <<[AdvancedValues(ui) EXCEPT !.name_prefix = Strip(@)]>>
       /\ KeptThroughSimplified]_vars

\* A simplified scan has run and the window was closed in simplified mode:
\* the file holds the days and the prefix of the advanced view, which are
\* not those of the simplified defaults.
C30_Witness ==
    /\ env.settings /= <<>>
    /\ env.settings[1].view_mode = "simplified"
    /\ ui.last_scan_mode = <<"simplified">>
    /\ ui.days = SIMPLIFIED_DEFAULTS.days
    /\ env.settings[1].days = 30
    /\ env.settings[1].name_prefix = <<"a">>
    /\ ~env.settings[1].use_hash

====
